---- MODULE Spec2Model ----
(***************************************************************************)
(* Model of the physical- and virtual-memory core of the juntos kernel:    *)
(* the bitmap frame allocator (src/memory/bitmap.rs) and the recursive     *)
(* page-table mapper (src/arch/x86_64/paging).                             *)
(*                                                                         *)
(* A 64-bit word is modelled as the set of its set bit positions, position *)
(* 0 being the least significant bit and position 63 the most significant. *)
(***************************************************************************)
EXTENDS Integers, Naturals, Sequences, FiniteSets, TLC

VARIABLES
    bits,              \* Bitmap::bits, word index -> word
    arena,             \* BitmapAllocator::arena, [base, size]
    debug_assertions,  \* build profile: debug_assert! and overflow checks on
    bres,              \* outcome of the last allocator call
    held,              \* frames owned by callers of the allocator
    halted,            \* a panic ended the allocator's execution context
    mem,               \* physical memory: frame -> the 512 entries stored in it
    pfree,             \* frames the mapper's FrameAllocator can still supply
    pres,              \* outcome of the last Mapper call
    phalted,           \* a panic or page fault ended the mapper's context
    cpu,               \* the main context's position and the exception handler's
    locks,             \* holder of each spin::Mutex: "free", "main" or "irq"
    tlb,               \* translation cache: flushes of the current modify call, stale
    bump,              \* BumpAllocator: frames_iter, free_regions, and its results
    calc,              \* last call on a value type: its receiver, arguments, outcome
    vga                \* VgaWriter: cursor, colour and buffer, and its last call

bvars == <<bits, arena, debug_assertions, bres, held, halted>>

pvars == <<mem, pfree, pres, phalted>>

\* the kernel's execution contexts, its locks and the translation cache
kvars == <<cpu, locks, tlb>>

\* the components that run on their own
ovars == <<bump, calc, vga>>

vars == <<bits, arena, debug_assertions, bres, held, halted, mem, pfree, pres, phalted,
          cpu, locks, tlb, bump, calc, vga>>

----------------------------------------------------------------------------
(* Bounds *)

\* number of u64 words handed to Bitmap::new (the tests use 20)
NumWords == 2

\* number of frames the mapper's FrameAllocator can supply
MaxPool == 4

\* number of Mapper calls one modify callback makes at most
MaxEdits == 2

\* number of alloc calls made on one BumpAllocator
MaxCalls == 6

----------------------------------------------------------------------------
(* Program constants *)

PAGE_SIZE == 4096
WordBits == 64
WordBytes == 8

----------------------------------------------------------------------------
(* Option values *)

NoneV == [some |-> FALSE, val |-> 0]
Some(v) == [some |-> TRUE, val |-> v]

SetMin(S) == CHOOSE x \in S : \A y \in S : x <= y

----------------------------------------------------------------------------
(* 64-bit words as sets of bit positions *)

AllOnes == 0 .. (WordBits - 1)
TopBit == {WordBits - 1}

\* word >> k
ShiftRight(word, k) == {b - k : b \in {c \in word : c >= k}}

\* !word
BitNot(word) == AllOnes \ word

\* u64::leading_ones: the number of set bits above the highest clear bit
LeadingOnes(word) ==
    IF word = AllOnes THEN WordBits
    ELSE LET clear == AllOnes \ word
             top == CHOOSE x \in clear : \A y \in clear : y <= x
         IN  WordBits - 1 - top

----------------------------------------------------------------------------
(* Bitmap *)

len_words(bm) == Cardinality(DOMAIN bm)

\* Bitmap::size
size(bm) == len_words(bm) * WordBytes

\* Bitmap::new
BitmapNew == [i \in 0 .. (NumWords - 1) |-> {}]

\* Bitmap::set
set(bm, index) ==
    LET word_index == index \div 64
        bit_offset == index % 64
    IN  [bm EXCEPT ![word_index] = @ \cup ShiftRight(TopBit, bit_offset)]

unset_ClearsWord(bm, index) ==
    LET word_index == index \div (WordBytes * 8)
    IN  [bm EXCEPT ![word_index] = {}]

\* Bitmap::unset
unset(bm, index) ==
    LET word_index == index \div (WordBytes * 8)
        bit_offset == index % (WordBytes * 8)
    IN  [bm EXCEPT ![word_index] = @ \cap BitNot(ShiftRight(TopBit, bit_offset))]

\* Bitmap::is_set
is_set(bm, index) ==
    LET word_index == index \div (WordBytes * 8)
        bit_offset == index % (WordBytes * 8)
    IN  (bm[word_index] \cap BitNot(ShiftRight(TopBit, bit_offset))) # {}

\* Bitmap::first_unset
first_unset(bm) ==
    LET notFull == {i \in 0 .. (len_words(bm) - 1) : bm[i] # AllOnes}
    IN  IF notFull = {} THEN NoneV
        ELSE LET i == SetMin(notFull)
             IN  Some(i * 8 + LeadingOnes(bm[i]))

\* Bitmap::contiguous_range, the inner loop over the bits of one word, from
\* bit b with count the run length so far.  The loop shifts word left once
\* per bit and tests its top bit, so at bit b it tests position 63 - b.
\* The result is the bit at which count == num (64 when the loop ran to its
\* end) and the run length at that point.
RECURSIVE ScanWord(_, _, _, _)
ScanWord(word, num, b, count) ==
    IF b >= WordBytes * 8 THEN [b |-> b, count |-> count]
    ELSE
        LET count2 == IF (WordBits - 1 - b) \notin word THEN count + 1 ELSE 0
        IN  IF count2 = num THEN [b |-> b, count |-> count2]
            ELSE ScanWord(word, num, b + 1, count2)

\* Bitmap::contiguous_range, the outer loop over the words from word i.
\* The result value is i*8 + b + 1 - num; a negative value stands for the
\* usize subtraction having gone below zero.
RECURSIVE ScanRange(_, _, _, _)
ScanRange(bm, num, i, count) ==
    IF i >= len_words(bm) THEN NoneV
    ELSE LET r == ScanWord(bm[i], num, 0, count)
         IN  IF r.b < WordBytes * 8 THEN Some((i * 8) + r.b + 1 - num)
             ELSE ScanRange(bm, num, i + 1, r.count)

contiguous_range(bm, num) ==
    IF num > size(bm) THEN NoneV
    ELSE ScanRange(bm, num, 0, 0)

----------------------------------------------------------------------------
(* Addresses, frames, regions *)

\* PhysicalAddress::align_up, for an alignment that is a power of two:
\* (x + align - 1) & !(align - 1)
align_up(x, align) ==
    LET raw == x + align - 1
    IN  raw - (raw % align)

\* Frame::addr_from_number
addr_from_number(num) == num * PAGE_SIZE

\* Frame::number_from_addr
number_from_addr(addr) == addr \div PAGE_SIZE

\* PhysicalMemoryRegion::end
RegionEnd(region) == region.base + region.size

----------------------------------------------------------------------------
(* BitmapAllocator *)

\* the arenas the allocator is constructed over: the arena of the tests
\* (frames 2..5), one of exactly 64 frames (1..64) and one of 65 frames (1..65)
Arenas ==
    { [base |-> 4864, size |-> 20480],
      [base |-> 4096, size |-> 64 * 4096],
      [base |-> 4096, size |-> 65 * 4096] }

\* frames passed to dealloc
DeallocFrames == {1, 3, 5, 65, 66, 70}

\* sizes passed to alloc_range
RangeSizes == {4096, 8192, 40960, 100}

\* BitmapAllocator::first_frame_num
first_frame_num(a) == align_up(a.base, PAGE_SIZE) \div PAGE_SIZE

\* BitmapAllocator::end_frame_num
end_frame_num(a) == number_from_addr(RegionEnd(a))

\* outcome records of the allocator calls
BRes(op, arg, kind, val, sz, msg) ==
    [op |-> op, arg |-> arg, kind |-> kind, val |-> val, size |-> sz, msg |-> msg]

\* unsigned comparison a > b of a value that may have wrapped below zero
\* (a negative a stands for 2^64 + a) with a value b that has not
UGreater(a, b) == IF a < 0 THEN TRUE ELSE a > b

\* BitmapAllocator::alloc
Alloc ==
    /\ ~halted
    /\ LET first_frame == first_frame_num(arena)
           first_free == first_unset(bits)
       IN  IF ~first_free.some
           THEN /\ bres' = BRes("alloc", 0, "none", 0, 0, "")
                /\ UNCHANGED <<bits, held>>
           ELSE LET frame_num == first_free.val + first_frame
                IN  IF frame_num + 1 > end_frame_num(arena)
                    THEN /\ bres' = BRes("alloc", 0, "none", 0, 0, "")
                         /\ UNCHANGED <<bits, held>>
                    ELSE /\ bits' = set(bits, first_free.val)
                         /\ bres' = BRes("alloc", 0, "frame", frame_num, 0, "")
                         /\ held' = held \cup {frame_num}
    /\ UNCHANGED <<arena, debug_assertions, halted>>
    /\ UNCHANGED <<pvars, kvars, ovars>>

\* BitmapAllocator::dealloc
Dealloc(frame) ==
    /\ ~halted
    /\ LET first_frame == first_frame_num(arena)
           bitmap_num == frame - first_frame
           inBounds == bitmap_num \div 64 < len_words(bits)
           panic(msg) == /\ bres' = BRes("dealloc", frame, "panic", 0, 0, msg)
                         /\ halted' = TRUE
                         /\ UNCHANGED <<bits, held>>
       IN  IF frame < first_frame \/ frame > end_frame_num(arena)
           THEN panic("Attempting to free frame outside of arena!")
           ELSE IF ~inBounds
           THEN panic("index out of bounds")
           ELSE IF debug_assertions /\ ~is_set(bits, bitmap_num)
           THEN panic("Attempting to free unallocated frame!")
           ELSE /\ bits' = unset(bits, bitmap_num)
                /\ bres' = BRes("dealloc", frame, "ok", 0, 0, "")
                /\ held' = held \ {frame}
                /\ UNCHANGED halted
    /\ UNCHANGED <<arena, debug_assertions>>
    /\ UNCHANGED <<pvars, kvars, ovars>>

\* the bitmap after the loop "for index in start..(start + num)" of set calls
RECURSIVE SetRange(_, _, _)
SetRange(bm, start, stop) ==
    IF start >= stop THEN bm ELSE SetRange(set(bm, start), start + 1, stop)

\* BitmapAllocator::alloc_range
AllocRange(sz) ==
    /\ ~halted
    /\ LET panic(msg) == /\ bres' = BRes("alloc_range", sz, "panic", 0, 0, msg)
                         /\ halted' = TRUE
                         /\ UNCHANGED <<bits, held>>
           none == /\ bres' = BRes("alloc_range", sz, "none", 0, 0, "")
                   /\ UNCHANGED <<bits, held, halted>>
           num_frames == sz \div PAGE_SIZE
           start_frame == contiguous_range(bits, num_frames)
           first_frame == first_frame_num(arena)
       IN  IF sz % 4096 # 0
           THEN panic("Trying to sub-allocate non-4k aligned size!")
           ELSE IF ~start_frame.some
           THEN none
           ELSE IF start_frame.val < 0 /\ debug_assertions
           THEN panic("attempt to subtract with overflow")
           ELSE IF UGreater(start_frame.val + num_frames + first_frame, end_frame_num(arena))
           THEN none
           ELSE LET stop == start_frame.val + num_frames
                    newbits == IF start_frame.val < 0 THEN bits
                               ELSE SetRange(bits, start_frame.val, stop)
                    base == addr_from_number(start_frame.val + first_frame)
                IN  /\ bits' = newbits
                    /\ bres' = BRes("alloc_range", sz, "region", base, num_frames * PAGE_SIZE, "")
                    /\ held' = held \cup
                          ((start_frame.val + first_frame) .. (start_frame.val + first_frame + num_frames - 1))
                    /\ UNCHANGED halted
    /\ UNCHANGED <<arena, debug_assertions>>
    /\ UNCHANGED <<pvars, kvars, ovars>>

----------------------------------------------------------------------------
(* The Bitmap driven directly, as the tests of bitmap.rs drive it *)

\* indices passed to set, unset and is_set
BitIndices == {0, 2, 21, 63, 64}

\* lengths k of the prefixes a loop "for i in 0..k { bitmap.set(i) }" has set
FillSizes == {0, 50, WordBits, NumWords * WordBits}

\* the bitmap after that loop: bit i is the bit 63 - i % 64 of word i / 64
Filled(k) ==
    [w \in 0 .. (NumWords - 1) |->
        {WordBits - 1 - b : b \in {c \in 0 .. (WordBits - 1) : w * WordBits + c < k}}]

\* run lengths passed to contiguous_range
RangeLens == {1, 3, 16, 17}

BitmapSet(index) ==
    /\ ~halted
    /\ bits' = set(bits, index)
    /\ bres' = BRes("set", index, "ok", 0, 0, "")
    /\ UNCHANGED <<arena, debug_assertions, held, halted>>
    /\ UNCHANGED <<pvars, kvars, ovars>>

BitmapUnset(index) ==
    /\ ~halted
    /\ bits' = unset(bits, index)
    /\ bres' = BRes("unset", index, "ok", 0, 0, "")
    /\ UNCHANGED <<arena, debug_assertions, held, halted>>
    /\ UNCHANGED <<pvars, kvars, ovars>>

BitmapIsSet(index) ==
    /\ ~halted
    /\ bres' = BRes("is_set", index, "bool", IF is_set(bits, index) THEN 1 ELSE 0, 0, "")
    /\ UNCHANGED <<bits, arena, debug_assertions, held, halted>>
    /\ UNCHANGED <<pvars, kvars, ovars>>

BitmapFirstUnset ==
    /\ ~halted
    /\ LET r == first_unset(bits)
       IN  bres' = BRes("first_unset", 0, IF r.some THEN "some" ELSE "none", r.val, 0, "")
    /\ UNCHANGED <<bits, arena, debug_assertions, held, halted>>
    /\ UNCHANGED <<pvars, kvars, ovars>>

\* contiguous_range: the subtraction that goes below zero panics in a build
\* with overflow checks and wraps around otherwise (val is then negative)
BitmapContiguousRange(num) ==
    /\ ~halted
    /\ LET r == contiguous_range(bits, num)
       IN  IF r.some /\ r.val < 0 /\ debug_assertions
           THEN /\ bres' = BRes("contiguous_range", num, "panic", 0, 0,
                                "attempt to subtract with overflow")
                /\ halted' = TRUE
           ELSE /\ bres' = BRes("contiguous_range", num,
                                IF r.some THEN "some" ELSE "none", r.val, 0, "")
                /\ UNCHANGED halted
    /\ UNCHANGED <<bits, arena, debug_assertions, held>>
    /\ UNCHANGED <<pvars, kvars, ovars>>

----------------------------------------------------------------------------
(* Page numbers *)

\* Page::num is below 2^36 (Page::containing masks the address); it is kept
\* as two 18-bit limbs, num = hi * 2^18 + lo.
PageNum(hi, lo) == [hi |-> hi, lo |-> lo]

\* (num >> k) & 0o777 for k a multiple of 9 below 36
ShiftMask9(num, k) ==
    IF k >= 18 THEN (num.hi \div (2 ^ (k - 18))) % 512
    ELSE (num.lo \div (2 ^ k)) % 512

\* Page::level4_page_number
level4_page_number(page) == ShiftMask9(page, 27)
level3_page_number_WrongShift(page) == ShiftMask9(page, 9)

\* Page::level3_page_number
level3_page_number(page) == ShiftMask9(page, 18)
\* Page::level2_page_number
level2_page_number(page) == ShiftMask9(page, 9)
\* Page::level1_page_number
level1_page_number(page) == ShiftMask9(page, 0)

----------------------------------------------------------------------------
(* Page table entries *)

\* Flags
PRESENT == {0}
WRITE == {1}
USER == {2}

\* the bits of a frame number; the frame numbers of the model are below 2^16
BitsOf(n) == {i \in 0 .. 15 : (n \div (2 ^ i)) % 2 = 1}

RECURSIVE ValueOf(_)
ValueOf(word) ==
    IF word = {} THEN 0
    ELSE LET b == CHOOSE x \in word : TRUE
         IN  2 ^ b + ValueOf(word \ {b})

\* word << k, truncated to 64 bits
ShiftLeft(word, k) == {b + k : b \in {c \in word : c + k < WordBits}}

\* Entry::ADDR_MASK
ADDR_MASK == 12 .. 51

EntryNewBits_UnshiftedFrame(num, flags) == num \cup flags

\* Entry::new on the 64 bits of the frame number: (num << 12) | flags.bits
EntryNewBits(num, flags) == ShiftLeft(num, 12) \cup flags

\* Entry::new
EntryNew(frame, flags) == EntryNewBits(BitsOf(frame), flags)

\* the bits the Flags type defines: PRESENT .. GLOBAL and NO_EXECUTE
FlagBits == (0 .. 8) \cup {63}

\* Entry::flags, Flags::from_bits_truncate
EntryFlags(entry) == entry \cap FlagBits

\* Entry::addr
EntryAddr(entry) == entry \cap ADDR_MASK

\* Entry::clear
EntryClear(entry) == {}

\* Entry::empty
EntryEmpty == {}

\* Entry::is_present
is_present(entry) == PRESENT \subseteq entry

\* the frame an entry points at: Entry::addr, as a frame number
EntryFrame(entry) == ValueOf(ShiftRight(entry \cap ADDR_MASK, 12))

----------------------------------------------------------------------------
(* Physical memory and the recursive mapping *)

\* the frame of the active level-4 table (the one CR3 names)
RootFrame == 0
\* the frames the FrameAllocator passed to map can supply
PoolFrames == 1 .. MaxPool
\* the frames callers map pages to
DataFrames == {MaxPool + 1, MaxPool + 2}
\* two tables the boot code built below level-4 entry 1: a level-3 table and
\* a level-2 table, with no level-1 table yet
BootL3 == MaxPool + 3
BootL2 == MaxPool + 4
Frames == 0 .. (MaxPool + 4)

\* the pages passed to the Mapper, as level-4 .. level-1 indices: four
\* ordinary pages and the page of the level-4 table itself under the
\* recursive mapping (0xFFFF_FFFF_FFFF_F000)
PageOf(i4, i3, i2, i1) == PageNum(i4 * 512 + i3, i2 * 512 + i1)
Pages ==
    { PageOf(0, 0, 0, 1), PageOf(0, 0, 0, 2), PageOf(0, 1, 0, 1),
      PageOf(1, 0, 0, 1),
      PageOf(511, 511, 511, 511) }

\* RecursivePageTable::entries has 512 slots; the model keeps the slots that
\* the pages above select
EntryCount == 512
Indices == {i \in {0, 1, 2, 511} : i < EntryCount}

EmptyTable == [i \in Indices |-> EntryEmpty]

\* PAGE_TABLE_RAW = 0xFFFF_FFFF_FFFF_F000.  The address of a table is kept as
\* the four 9-bit indices of its page, level 4 first.
PAGE_TABLE_RAW == <<511, 511, 511, 511>>

\* RecursivePageTable::get_table_ptr: ((self >> 3) | index) << 12 in 64 bits.
\* For a page-aligned table address whose level-4 and level-3 indices are 511
\* this drops the level-4 index, moves the other three up one level and puts
\* index in the level-1 place; the result is canonical.
get_table_ptr(self, index) == Tail(self) \o <<index>>

\* the translation of a table address by the processor: the walk from the
\* active level-4 table through four present entries
RECURSIVE Walk(_, _, _)
Walk(m, frame, idx) ==
    IF idx = <<>> THEN Some(frame)
    ELSE LET e == m[frame][Head(idx)]
         IN  IF is_present(e) /\ EntryFrame(e) \in Frames
             THEN Walk(m, EntryFrame(e), Tail(idx))
             ELSE NoneV

Translate(m, ptr) == Walk(m, RootFrame, ptr)

\* the state a Mapper operation threads through its steps: the memory, the
\* allocator's frames, the number of frames allocated, st = "ok" or the
\* failure, and the table address a step returns
MState(m, pf, n, st, ptr) == [m |-> m, pf |-> pf, n |-> n, st |-> st, ptr |-> ptr]

PageFault == "page fault"

\* FrameAllocator::alloc of the allocator passed to map
PoolAlloc(pf) == IF pf = {} THEN NoneV ELSE Some(SetMin(pf))

\* RecursivePageTable::clear through the table's address, entry by entry
RECURSIVE ClearEntries(_, _, _)
ClearEntries(m, ptr, todo) ==
    IF todo = {} THEN [m |-> m, st |-> "ok"]
    ELSE LET i == SetMin(todo)
             t == Translate(m, ptr)
         IN  IF ~t.some THEN [m |-> m, st |-> PageFault]
             ELSE ClearEntries([m EXCEPT ![t.val][i] = EntryEmpty], ptr, todo \ {i})

\* RecursivePageTable::get_table_mut: the address of the next table, or None
\* (st = "none") when the entry is not present
get_table_mut(s, self, index) ==
    LET t == Translate(s.m, self)
    IN  IF ~t.some THEN [s EXCEPT !.st = PageFault]
        ELSE IF is_present(s.m[t.val][index])
             THEN [s EXCEPT !.ptr = get_table_ptr(self, index)]
             ELSE [s EXCEPT !.st = "none"]

\* the tail of create_table: get_table_mut(index).expect(..)
ExpectTable(s, self, index) ==
    LET r == get_table_mut(s, self, index)
    IN  IF r.st = "none"
        THEN [r EXCEPT !.st = "Table entry after allocation still empty!"]
        ELSE r

\* create_table that does not clear the table it created
create_table_ReturnsError(s, self, index) ==
    LET t == Translate(s.m, self)
    IN  IF ~t.some THEN [s EXCEPT !.st = PageFault]
        ELSE IF ~is_present(s.m[t.val][index])
        THEN LET frame == PoolAlloc(s.pf)
             IN  IF ~frame.some
                 THEN [s EXCEPT !.st = "Err"]
                 ELSE LET s1 == [s EXCEPT
                                   !.m[t.val][index] = EntryNew(frame.val, PRESENT \cup WRITE \cup USER),
                                   !.pf = @ \ {frame.val},
                                   !.n = @ + 1]
                          s2 == ExpectTable(s1, self, index)
                      IN  IF s2.st # "ok" THEN s2
                          ELSE LET c == ClearEntries(s2.m, s2.ptr, Indices)
                               IN  IF c.st # "ok"
                                   THEN [s2 EXCEPT !.m = c.m, !.st = c.st]
                                   ELSE ExpectTable([s2 EXCEPT !.m = c.m], self, index)
        ELSE ExpectTable(s, self, index)

create_table_NoUser(s, self, index) ==
    LET t == Translate(s.m, self)
    IN  IF ~t.some THEN [s EXCEPT !.st = PageFault]
        ELSE IF ~is_present(s.m[t.val][index])
        THEN LET frame == PoolAlloc(s.pf)
             IN  IF ~frame.some
                 THEN [s EXCEPT !.st = "Out of memory for creating page tables!"]
                 ELSE LET s1 == [s EXCEPT
                                   !.m[t.val][index] = EntryNew(frame.val, PRESENT \cup WRITE),
                                   !.pf = @ \ {frame.val},
                                   !.n = @ + 1]
                          s2 == ExpectTable(s1, self, index)
                      IN  IF s2.st # "ok" THEN s2
                          ELSE LET c == ClearEntries(s2.m, s2.ptr, Indices)
                               IN  IF c.st # "ok"
                                   THEN [s2 EXCEPT !.m = c.m, !.st = c.st]
                                   ELSE ExpectTable([s2 EXCEPT !.m = c.m], self, index)
        ELSE ExpectTable(s, self, index)

create_table_NoClear(s, self, index) ==
    LET t == Translate(s.m, self)
    IN  IF ~t.some THEN [s EXCEPT !.st = PageFault]
        ELSE IF ~is_present(s.m[t.val][index])
        THEN LET frame == PoolAlloc(s.pf)
             IN  IF ~frame.some
                 THEN [s EXCEPT !.st = "Out of memory for creating page tables!"]
                 ELSE ExpectTable([s EXCEPT
                                     !.m[t.val][index] = EntryNew(frame.val, PRESENT \cup WRITE \cup USER),
                                     !.pf = @ \ {frame.val},
                                     !.n = @ + 1], self, index)
        ELSE ExpectTable(s, self, index)

\* RecursivePageTable::create_table
create_table(s, self, index) ==
    LET t == Translate(s.m, self)
    IN  IF ~t.some THEN [s EXCEPT !.st = PageFault]
        ELSE IF ~is_present(s.m[t.val][index])
        THEN LET frame == PoolAlloc(s.pf)
             IN  IF ~frame.some
                 THEN [s EXCEPT !.st = "Out of memory for creating page tables!"]
                 ELSE LET s1 == [s EXCEPT
                                   !.m[t.val][index] = EntryNew(frame.val, PRESENT \cup WRITE \cup USER),
                                   !.pf = @ \ {frame.val},
                                   !.n = @ + 1]
                          s2 == ExpectTable(s1, self, index)
                      IN  IF s2.st # "ok" THEN s2
                          ELSE LET c == ClearEntries(s2.m, s2.ptr, Indices)
                               IN  IF c.st # "ok"
                                   THEN [s2 EXCEPT !.m = c.m, !.st = c.st]
                                   ELSE ExpectTable([s2 EXCEPT !.m = c.m], self, index)
        ELSE ExpectTable(s, self, index)

\* l1_table[l1_idx] = entry
WriteEntry(s, table, index, entry) ==
    LET t == Translate(s.m, table)
    IN  IF ~t.some THEN [s EXCEPT !.st = PageFault]
        ELSE [s EXCEPT !.m[t.val][index] = entry]

----------------------------------------------------------------------------
(* Mapper *)

\* map with a level-1 entry that is present but not writable
MapperMap_LeafNotWritable(m, pf, page, frame) ==
    LET s0 == MState(m, pf, 0, "ok", PAGE_TABLE_RAW)
        l3_table == create_table(s0, PAGE_TABLE_RAW, level4_page_number(page))
    IN  IF l3_table.st # "ok" THEN l3_table
        ELSE LET l2_table == create_table(l3_table, l3_table.ptr, level3_page_number(page))
             IN  IF l2_table.st # "ok" THEN l2_table
                 ELSE LET l1_table == create_table(l2_table, l2_table.ptr,
                                                   level2_page_number(page))
                      IN  IF l1_table.st # "ok" THEN l1_table
                          ELSE WriteEntry(l1_table, l1_table.ptr, level1_page_number(page),
                                          EntryNew(frame, PRESENT))

\* Mapper::map
MapperMap(m, pf, page, frame) ==
    LET l4_idx == level4_page_number(page)
        l3_idx == level3_page_number(page)
        l2_idx == level2_page_number(page)
        l1_idx == level1_page_number(page)
        s0 == MState(m, pf, 0, "ok", PAGE_TABLE_RAW)
        l3_table == create_table(s0, PAGE_TABLE_RAW, l4_idx)
    IN  IF l3_table.st # "ok" THEN l3_table
        ELSE LET l2_table == create_table(l3_table, l3_table.ptr, l3_idx)
             IN  IF l2_table.st # "ok" THEN l2_table
                 ELSE LET l1_table == create_table(l2_table, l2_table.ptr, l2_idx)
                      IN  IF l1_table.st # "ok" THEN l1_table
                          ELSE WriteEntry(l1_table, l1_table.ptr, l1_idx,
                                          EntryNew(frame, PRESENT \cup WRITE))

\* map_no_alloc that creates the missing tables instead of failing
MapperMapNoAlloc_LeafUser(m, pf, page, frame) ==
    LET l4_idx == level4_page_number(page)
        l3_idx == level3_page_number(page)
        l2_idx == level2_page_number(page)
        l1_idx == level1_page_number(page)
        s0 == MState(m, pf, 0, "ok", PAGE_TABLE_RAW)
        ok_or(r, msg) == IF r.st = "none" THEN [r EXCEPT !.st = msg] ELSE r
        l3_table == ok_or(get_table_mut(s0, PAGE_TABLE_RAW, l4_idx), "L3 table not mapped")
    IN  IF l3_table.st # "ok" THEN l3_table
        ELSE LET l2_table == ok_or(get_table_mut(l3_table, l3_table.ptr, l3_idx),
                                   "L2 table not mapped")
             IN  IF l2_table.st # "ok" THEN l2_table
                 ELSE LET l1_table == ok_or(get_table_mut(l2_table, l2_table.ptr, l2_idx),
                                            "L1 table not mapped")
                      IN  IF l1_table.st # "ok" THEN l1_table
                          ELSE WriteEntry(l1_table, l1_table.ptr, l1_idx,
                                          EntryNew(frame, PRESENT \cup WRITE \cup USER))

MapperMapNoAlloc_Allocates(m, pf, page, frame) == MapperMap(m, pf, page, frame)

\* Mapper::map_no_alloc
MapperMapNoAlloc(m, pf, page, frame) ==
    LET l4_idx == level4_page_number(page)
        l3_idx == level3_page_number(page)
        l2_idx == level2_page_number(page)
        l1_idx == level1_page_number(page)
        s0 == MState(m, pf, 0, "ok", PAGE_TABLE_RAW)
        ok_or(r, msg) == IF r.st = "none" THEN [r EXCEPT !.st = msg] ELSE r
        l3_table == ok_or(get_table_mut(s0, PAGE_TABLE_RAW, l4_idx), "L3 table not mapped")
    IN  IF l3_table.st # "ok" THEN l3_table
        ELSE LET l2_table == ok_or(get_table_mut(l3_table, l3_table.ptr, l3_idx),
                                   "L2 table not mapped")
             IN  IF l2_table.st # "ok" THEN l2_table
                 ELSE LET l1_table == ok_or(get_table_mut(l2_table, l2_table.ptr, l2_idx),
                                            "L1 table not mapped")
                      IN  IF l1_table.st # "ok" THEN l1_table
                          ELSE WriteEntry(l1_table, l1_table.ptr, l1_idx,
                                          EntryNew(frame, PRESENT \cup WRITE))

\* unmap that walks to the level-1 table and leaves the level-1 entry alone
MapperUnmap_KeepsLeaf(m, pf, page) ==
    LET s0 == MState(m, pf, 0, "ok", PAGE_TABLE_RAW)
        ok_or(r, msg) == IF r.st = "none" THEN [r EXCEPT !.st = msg] ELSE r
        l3_table == ok_or(get_table_mut(s0, PAGE_TABLE_RAW, level4_page_number(page)),
                          "L3 table not mapped")
    IN  IF l3_table.st # "ok" THEN l3_table
        ELSE LET l2_table == ok_or(get_table_mut(l3_table, l3_table.ptr,
                                                 level3_page_number(page)),
                                   "L2 table not mapped")
             IN  IF l2_table.st # "ok" THEN l2_table
                 ELSE ok_or(get_table_mut(l2_table, l2_table.ptr, level2_page_number(page)),
                            "L1 table not mapped")

\* unmap that names the level above the one that is missing
MapperUnmap_WrongLevel(m, pf, page) ==
    LET s0 == MState(m, pf, 0, "ok", PAGE_TABLE_RAW)
        ok_or(r, msg) == IF r.st = "none" THEN [r EXCEPT !.st = msg] ELSE r
        l3_table == ok_or(get_table_mut(s0, PAGE_TABLE_RAW, level4_page_number(page)),
                          "L3 table not mapped")
    IN  IF l3_table.st # "ok" THEN l3_table
        ELSE LET l2_table == ok_or(get_table_mut(l3_table, l3_table.ptr,
                                                 level3_page_number(page)),
                                   "L3 table not mapped")
             IN  IF l2_table.st # "ok" THEN l2_table
                 ELSE LET l1_table == ok_or(get_table_mut(l2_table, l2_table.ptr,
                                                          level2_page_number(page)),
                                            "L2 table not mapped")
                      IN  IF l1_table.st # "ok" THEN l1_table
                          ELSE WriteEntry(l1_table, l1_table.ptr, level1_page_number(page),
                                          EntryEmpty)

\* unmap that also drops the level-2 entry of the level-1 table it emptied
MapperUnmap_DropsTable(m, pf, page) ==
    LET s0 == MState(m, pf, 0, "ok", PAGE_TABLE_RAW)
        ok_or(r, msg) == IF r.st = "none" THEN [r EXCEPT !.st = msg] ELSE r
        l3_table == ok_or(get_table_mut(s0, PAGE_TABLE_RAW, level4_page_number(page)),
                          "L3 table not mapped")
    IN  IF l3_table.st # "ok" THEN l3_table
        ELSE LET l2_table == ok_or(get_table_mut(l3_table, l3_table.ptr,
                                                 level3_page_number(page)),
                                   "L2 table not mapped")
             IN  IF l2_table.st # "ok" THEN l2_table
                 ELSE LET l1_table == ok_or(get_table_mut(l2_table, l2_table.ptr,
                                                          level2_page_number(page)),
                                            "L1 table not mapped")
                      IN  IF l1_table.st # "ok" THEN l1_table
                          ELSE LET w == WriteEntry(l1_table, l1_table.ptr,
                                                   level1_page_number(page), EntryEmpty)
                               IN  IF w.st # "ok" THEN w
                                   ELSE WriteEntry(w, l2_table.ptr,
                                                   level2_page_number(page), EntryEmpty)

\* Mapper::unmap
MapperUnmap(m, pf, page) ==
    LET l4_idx == level4_page_number(page)
        l3_idx == level3_page_number(page)
        l2_idx == level2_page_number(page)
        l1_idx == level1_page_number(page)
        s0 == MState(m, pf, 0, "ok", PAGE_TABLE_RAW)
        ok_or(r, msg) == IF r.st = "none" THEN [r EXCEPT !.st = msg] ELSE r
        l3_table == ok_or(get_table_mut(s0, PAGE_TABLE_RAW, l4_idx), "L3 table not mapped")
    IN  IF l3_table.st # "ok" THEN l3_table
        ELSE LET l2_table == ok_or(get_table_mut(l3_table, l3_table.ptr, l3_idx),
                                   "L2 table not mapped")
             IN  IF l2_table.st # "ok" THEN l2_table
                 ELSE LET l1_table == ok_or(get_table_mut(l2_table, l2_table.ptr, l2_idx),
                                            "L1 table not mapped")
                      IN  IF l1_table.st # "ok" THEN l1_table
                          ELSE WriteEntry(l1_table, l1_table.ptr, l1_idx, EntryEmpty)

----------------------------------------------------------------------------
(* The hierarchy as the processor sees it, from the active level-4 table *)

\* the ActivePageTable invariant: the last entry of the active level-4 table
\* is present and points at the table itself
RecursiveOK(m) ==
    /\ is_present(m[RootFrame][511])
    /\ EntryFrame(m[RootFrame][511]) = RootFrame

PageIdx(page) ==
    << level4_page_number(page), level3_page_number(page),
       level2_page_number(page), level1_page_number(page) >>

\* the frame of the table of the page's walk at depth d: d = 0 is the level-4
\* table, d = 3 the level-1 table; None when an entry above it is not present
TableAt(m, page, d) == Walk(m, RootFrame, SubSeq(PageIdx(page), 1, d))

\* the entry the page's walk selects at depth d (d = 0: the level-4 entry)
EntryAt(m, page, d) == m[TableAt(m, page, d).val][PageIdx(page)[d + 1]]

\* the entry at depth d is reached and present
PresentAt(m, page, d) == TableAt(m, page, d).some /\ is_present(EntryAt(m, page, d))

\* the first depth at which the walk meets a non-present intermediate entry
\* (0: level-4 entry, 1: level-3 entry, 2: level-2 entry), 3 when there is none
FirstMissing(m, page) ==
    IF ~PresentAt(m, page, 0) THEN 0
    ELSE IF ~PresentAt(m, page, 1) THEN 1
    ELSE IF ~PresentAt(m, page, 2) THEN 2
    ELSE 3

\* the level-1 entry of the page is itself one of the intermediate entries of
\* the page's walk, or the recursive entry of the level-4 table
LeafOnOwnWalk(m, page) ==
    /\ FirstMissing(m, page) = 3
    /\ \/ \E d \in 0 .. 2 :
             /\ TableAt(m, page, d).val = TableAt(m, page, 3).val
             /\ PageIdx(page)[d + 1] = PageIdx(page)[4]
       \/ /\ TableAt(m, page, 3).val = RootFrame
          /\ PageIdx(page)[4] = 511

\* the failures that end the execution context: panics and page faults
Fatal ==
    { "Out of memory for creating page tables!",
      "Table entry after allocation still empty!",
      PageFault }

\* the outcome of a Mapper call: its arguments, its result, the number of
\* frames it allocated, whether the recursive mapping was intact (rec) and
\* whether the level-1 entry lay on the page's own walk (own) when it was
\* called, and whether the call directly follows a successful map of the same
\* page ("yes"; "clean" when that map started with rec and without own)
PRes(op, page, frame, r) ==
    [op |-> op, page |-> page, frame |-> frame, res |-> r.st, allocs |-> r.n,
     rec |-> RecursiveOK(mem), own |-> LeafOnOwnWalk(mem, page),
     after_map |-> IF pres.op = "map" /\ pres.res = "ok" /\ pres.page = page
                   THEN (IF pres.rec /\ ~pres.own THEN "clean" ELSE "yes")
                   ELSE "no"]

PResNew ==
    [op |-> "new", page |-> PageNum(0, 0), frame |-> 0, res |-> "ok", allocs |-> 0,
     rec |-> TRUE, own |-> FALSE, after_map |-> "no"]

Finish(op, page, frame, r) ==
    /\ mem' = r.m
    /\ pfree' = r.pf
    /\ pres' = PRes(op, page, frame, r)
    /\ phalted' = (r.st \in Fatal)
    /\ UNCHANGED <<bvars, kvars, ovars>>

Map(page, frame) ==
    /\ ~phalted
    /\ Finish("map", page, frame, MapperMap(mem, pfree, page, frame))

MapNoAlloc(page, frame) ==
    /\ ~phalted
    /\ Finish("map_no_alloc", page, frame, MapperMapNoAlloc(mem, pfree, page, frame))

Unmap(page) ==
    /\ ~phalted
    /\ Finish("unmap", page, 0, MapperUnmap(mem, pfree, page))

----------------------------------------------------------------------------
(* The kernel's main context, ActivePageTable::modify, the locks of the     *)
(* singletons and an exception handler that interrupts the main context     *)

Locks == {"PAGE_TABLE", "VGA_WRITER"}

\* the pages and the frame the callbacks of arch_init and kernel_main use
ModifyPages == {PageOf(0, 0, 0, 1), PageOf(1, 0, 0, 1)}

KernelIdle ==
    /\ cpu = [pc |-> "run", irq |-> "none", want |-> "VGA_WRITER", edits |-> 0]
    /\ locks = [l \in Locks |-> "free"]
    /\ tlb = [flushes |-> 0, stale |-> FALSE]

\* the main context runs only while no handler is on the processor
MainAt(pc) == cpu.irq = "none" /\ cpu.pc = pc

\* PAGE_TABLE.lock() of arch_init and kernel_main
LockPageTable ==
    /\ MainAt("run")
    /\ locks["PAGE_TABLE"] = "free"
    /\ locks' = [locks EXCEPT !["PAGE_TABLE"] = "main"]
    /\ cpu' = [cpu EXCEPT !.pc = "locked"]
    /\ UNCHANGED <<ovars, bvars, pvars, tlb>>

\* ActivePageTable::modify up to the call of the callback
ModifyEnter ==
    /\ MainAt("locked")
    /\ cpu' = [cpu EXCEPT !.pc = "callback", !.edits = 0]
    /\ tlb' = [tlb EXCEPT !.flushes = 0]
    /\ UNCHANGED <<ovars, bvars, pvars, locks>>

\* a Mapper call made by the callback; a failure of map, or an Err of unmap
\* handed to expect, panics
CallbackEdit(op, page, frame, r) ==
    /\ MainAt("callback")
    /\ cpu.edits < MaxEdits
    /\ mem' = r.m
    /\ pfree' = r.pf
    /\ pres' = PRes(op, page, frame, r)
    /\ phalted' = (r.st # "ok")
    /\ cpu' = [cpu EXCEPT !.pc = IF r.st = "ok" THEN "callback" ELSE "panic",
                          !.edits = @ + 1]
    /\ tlb' = [tlb EXCEPT !.stale = @ \/ (r.m # mem)]
    /\ UNCHANGED <<ovars, bvars, locks>>

CallbackMap(page, frame) == CallbackEdit("map", page, frame, MapperMap(mem, pfree, page, frame))

CallbackUnmap(page) == CallbackEdit("unmap", page, 0, MapperUnmap(mem, pfree, page))

\* the callback returns to modify
CallbackReturn ==
    /\ MainAt("callback")
    /\ cpu' = [cpu EXCEPT !.pc = "flush"]
    /\ UNCHANGED <<ovars, bvars, pvars, locks, tlb>>

\* a flush that is skipped when no table was written
Flush_OnlyWhenStale ==
    /\ MainAt("flush")
    /\ tlb' = [flushes |-> IF tlb.stale THEN tlb.flushes + 1 ELSE tlb.flushes,
               stale |-> FALSE]
    /\ cpu' = [cpu EXCEPT !.pc = "return"]
    /\ UNCHANGED <<ovars, bvars, pvars, locks>>

\* tlb::flush: reloading cr3 drops every cached translation
Flush ==
    /\ MainAt("flush")
    /\ tlb' = [flushes |-> tlb.flushes + 1, stale |-> FALSE]
    /\ cpu' = [cpu EXCEPT !.pc = "return"]
    /\ UNCHANGED <<ovars, bvars, pvars, locks>>

\* modify returns to its caller, which still holds the guard
ModifyReturn ==
    /\ MainAt("return")
    /\ cpu' = [cpu EXCEPT !.pc = "held"]
    /\ UNCHANGED <<ovars, bvars, pvars, locks, tlb>>

\* the end of arch_init drops the guard
DropGuard ==
    /\ MainAt("held")
    /\ locks' = [locks EXCEPT !["PAGE_TABLE"] = "free"]
    /\ cpu' = [cpu EXCEPT !.pc = "run"]
    /\ UNCHANGED <<ovars, bvars, pvars, tlb>>

\* the loop {} that ends kernel_main: its guard is never dropped
MainLoop ==
    /\ MainAt("held")
    /\ cpu' = [cpu EXCEPT !.pc = "loop"]
    /\ UNCHANGED <<ovars, bvars, pvars, locks, tlb>>

\* the panic handler: println, then loop {}; nothing unwinds, no guard drops
Panic ==
    /\ MainAt("panic")
    /\ locks["VGA_WRITER"] = "free"
    /\ cpu' = [cpu EXCEPT !.pc = "halt"]
    /\ UNCHANGED <<ovars, bvars, pvars, locks, tlb>>

\* _print in the main context: VGA_WRITER.lock() ...
PrintLock ==
    /\ MainAt("run")
    /\ locks["VGA_WRITER"] = "free"
    /\ locks' = [locks EXCEPT !["VGA_WRITER"] = "main"]
    /\ cpu' = [cpu EXCEPT !.pc = "print"]
    /\ UNCHANGED <<ovars, bvars, pvars, tlb>>

\* ... and the drop of its guard when write_fmt has returned
PrintUnlock ==
    /\ MainAt("print")
    /\ locks' = [locks EXCEPT !["VGA_WRITER"] = "free"]
    /\ cpu' = [cpu EXCEPT !.pc = "run"]
    /\ UNCHANGED <<ovars, bvars, pvars, tlb>>

\* an exception interrupts the main context; its handler is about to take
\* the lock l (VGA_WRITER for the println of the handlers of exception.rs)
Interrupt(l) ==
    /\ cpu.irq = "none"
    /\ cpu.pc \notin {"loop", "halt"}
    /\ cpu' = [cpu EXCEPT !.irq = "lock", !.want = l]
    /\ UNCHANGED <<ovars, bvars, pvars, locks, tlb>>

\* a handler whose lock() takes a mutex that is held
HandlerLock_Reentrant ==
    /\ cpu.irq \in {"lock", "spin"}
    /\ locks' = [locks EXCEPT ![cpu.want] = "irq"]
    /\ cpu' = [cpu EXCEPT !.irq = "crit"]
    /\ UNCHANGED <<ovars, bvars, pvars, tlb>>

\* spin::Mutex::lock in the handler: one compare-exchange; it takes the
\* mutex when it is free and spins otherwise
HandlerLock ==
    /\ cpu.irq \in {"lock", "spin"}
    /\ IF locks[cpu.want] = "free"
       THEN /\ locks' = [locks EXCEPT ![cpu.want] = "irq"]
            /\ cpu' = [cpu EXCEPT !.irq = "crit"]
       ELSE /\ locks' = locks
            /\ cpu' = [cpu EXCEPT !.irq = "spin"]
    /\ UNCHANGED <<ovars, bvars, pvars, tlb>>

\* the handler drops its guard and returns to the interrupted context
HandlerReturn ==
    /\ cpu.irq = "crit"
    /\ locks' = [locks EXCEPT ![cpu.want] = "free"]
    /\ cpu' = [cpu EXCEPT !.irq = "none"]
    /\ UNCHANGED <<ovars, bvars, pvars, tlb>>

----------------------------------------------------------------------------
(* BumpAllocator over a sequence of MemoryRegions *)

\* Frame::containing
containing(addr) == addr \div PAGE_SIZE

\* Frame::after: the first frame after a particular address
after(addr) == (addr + PAGE_SIZE - 1) \div PAGE_SIZE

\* MemoryRegion::frames: the FrameIter from start_frame to end_frame, or
\* the panic of the unwrap in Frame::offset(-1) when checked_sub yields None
frames(region) ==
    LET start_frame == after(region.start_addr)
        last == containing(region.end_addr)
    IN  IF last < 1 THEN [st |-> "panic", current |-> 0, end |-> 0]
        ELSE [st |-> "ok", current |-> start_frame, end |-> last - 1]

\* BumpAllocator::new and the refill of alloc:
\* frames_iter = free_regions.next().map(|region| region.frames())
NextRegion(b) ==
    IF b.free_regions = <<>> THEN [b EXCEPT !.frames_iter = NoneV]
    ELSE LET it == frames(Head(b.free_regions))
         IN  [b EXCEPT !.frames_iter = Some([current |-> it.current, end |-> it.end]),
                       !.free_regions = Tail(@),
                       !.st = IF it.st = "ok" THEN @ ELSE "called Option::unwrap() on a None value"]

\* BumpAllocator::alloc; res is the frame number, -1 for None
RECURSIVE BumpAllocFn(_)
BumpAllocFn(b) ==
    IF ~b.frames_iter.some THEN [b |-> b, res |-> -1]
    ELSE LET it == b.frames_iter.val
         IN  IF it.current <= it.end
             THEN [b |-> [b EXCEPT !.frames_iter = Some([it EXCEPT !.current = @ + 1])],
                   res |-> it.current]
             ELSE LET b2 == NextRegion(b)
                  IN  IF b2.st # "ok" THEN [b |-> b2, res |-> -1]
                      ELSE BumpAllocFn(b2)

\* the regions handed to the allocator: one that ends below the first page
\* boundary, two with full pages, one too small to hold a page
BumpRegions ==
    { [start_addr |-> 256, end_addr |-> 512],
      [start_addr |-> 4096, end_addr |-> 12288],
      [start_addr |-> 12304, end_addr |-> 12320],
      [start_addr |-> 14336, end_addr |-> 24832] }

\* sequences of one to three different regions
RegionLists ==
    {<<r>> : r \in BumpRegions}
    \cup {l \in BumpRegions \X BumpRegions : l[1] # l[2]}
    \cup {l \in BumpRegions \X BumpRegions \X BumpRegions :
             l[1] # l[2] /\ l[1] # l[3] /\ l[2] # l[3]}

BumpNew(regs) ==
    NextRegion([frames_iter |-> NoneV, free_regions |-> regs, st |-> "ok",
                regions |-> regs, out |-> <<>>])

BumpIdle == bump = BumpNew(<<>>)

\* one call of alloc; out collects the results of the calls
BumpAlloc ==
    /\ bump.st = "ok"
    /\ Len(bump.out) < MaxCalls
    /\ LET r == BumpAllocFn(bump)
       IN  bump' = [r.b EXCEPT !.out = IF r.b.st = "ok" THEN Append(@, r.res) ELSE @]
    /\ UNCHANGED <<bvars, pvars, kvars, calc, vga>>

----------------------------------------------------------------------------
(* Value types: memory regions (src/memory/mod.rs) *)

\* the regions of the model lie in the addresses 0 .. MaxAddr
MaxAddr == 4

\* no call on a value type has been made; the values are constructed for one
\* call, so each behaviour applies one operation to one choice of inputs
CalcIdle == calc = [op |-> "none"]

\* MemoryRegion, the half-open range [start_addr, end_addr)
MemoryRegionNew(start_addr, end_addr) == [start_addr |-> start_addr, end_addr |-> end_addr]

\* MemoryRegion::new asserts start_addr <= end_addr
MemoryRegions ==
    {MemoryRegionNew(s, e) : s \in 0 .. MaxAddr, e \in 0 .. MaxAddr} \cap
    {r \in [start_addr : 0 .. MaxAddr, end_addr : 0 .. MaxAddr] : r.start_addr <= r.end_addr}

\* MemoryRegion::contains
contains(self, region) ==
    self.start_addr <= region.start_addr /\ region.end_addr <= self.end_addr

intersection_KeepsEmpty(self, other) ==
    LET max(a, b) == IF a >= b THEN a ELSE b
        min(a, b) == IF a <= b THEN a ELSE b
        start == max(self.start_addr, other.start_addr)
        end == min(self.end_addr, other.end_addr)
    IN  IF start > end THEN NoneV ELSE Some(MemoryRegionNew(start, end))

\* MemoryRegion::intersection
intersection(self, other) ==
    LET max(a, b) == IF a >= b THEN a ELSE b
        min(a, b) == IF a <= b THEN a ELSE b
        start == max(self.start_addr, other.start_addr)
        end == min(self.end_addr, other.end_addr)
    IN  IF start >= end THEN NoneV ELSE Some(MemoryRegionNew(start, end))

subtract_DropsSecond(self, other) ==
    IF /\ other.start_addr <= self.start_addr
       /\ self.start_addr <= other.end_addr
       /\ other.end_addr <= self.end_addr
    THEN [first |-> MemoryRegionNew(other.end_addr, self.end_addr), second |-> NoneV]
    ELSE IF /\ self.start_addr < other.start_addr
            /\ other.start_addr < self.end_addr
    THEN [first |-> MemoryRegionNew(self.start_addr, other.start_addr), second |-> NoneV]
    ELSE [first |-> self, second |-> NoneV]

\* MemoryRegion::subtract, the pair (MemoryRegion, Option<MemoryRegion>)
subtract(self, other) ==
    IF self.start_addr < other.start_addr /\ other.end_addr < self.end_addr
    THEN [first |-> MemoryRegionNew(self.start_addr, other.start_addr),
          second |-> Some(MemoryRegionNew(other.end_addr, self.end_addr))]
    ELSE IF /\ other.start_addr <= self.start_addr
            /\ self.start_addr <= other.end_addr
            /\ other.end_addr <= self.end_addr
    THEN [first |-> MemoryRegionNew(other.end_addr, self.end_addr), second |-> NoneV]
    ELSE IF /\ self.start_addr < other.start_addr
            /\ other.start_addr < self.end_addr
            /\ self.end_addr <= other.end_addr
    THEN [first |-> MemoryRegionNew(self.start_addr, other.start_addr), second |-> NoneV]
    ELSE [first |-> self, second |-> NoneV]

\* PhysicalMemoryRegion, base and size
PhysicalMemoryRegions == [base : 0 .. MaxAddr, size : 0 .. MaxAddr]

TakeAmounts == 0 .. (MaxAddr + 1)

take_KeepsBase(self, amount) ==
    [st |-> "ok", msg |-> "", self |-> [self EXCEPT !.size = self.size - amount],
     ret |-> Some([base |-> self.base, size |-> amount])]

\* PhysicalMemoryRegion::take: base is advanced first, then size -= amount.
\* With overflow checks the subtraction panics when amount > size; without
\* them it wraps, and a negative size stands for the wrapped value 2^64 + size.
take(self, amount) ==
    LET advanced == [self EXCEPT !.base = self.base + amount]
    IN  IF amount > self.size /\ debug_assertions
        THEN [st |-> "panic", msg |-> "attempt to subtract with overflow",
              self |-> advanced, ret |-> NoneV]
        ELSE [st |-> "ok", msg |-> "",
              self |-> [advanced EXCEPT !.size = self.size - amount],
              ret |-> Some([base |-> self.base, size |-> amount])]

\* the section headers of the ElfSymbols tag that matter to the kernel's
\* extent: section_type (0 is SectionType::Null), addr and size
ElfSections == [section_type : {0, 1}, addr : 0 .. MaxAddr, size : {0, 2}]

\* the section lists of a tag: one or two section headers
ElfSectionLists == {<<a>> : a \in ElfSections} \cup (ElfSections \X ElfSections)

\* ElfSymbols::kernel_memory_region: min() and max() of the addr of the
\* sections that are not Null, each unwrapped
kernel_memory_region(sections) ==
    LET addrs == {sections[i].addr : i \in {j \in 1 .. Len(sections) :
                                               sections[j].section_type # 0}}
    IN  IF addrs = {}
        THEN [st |-> "panic", msg |-> "called Option::unwrap() on a None value",
              region |-> NoneV]
        ELSE LET start == CHOOSE a \in addrs : \A b \in addrs : a <= b
                 end == CHOOSE a \in addrs : \A b \in addrs : b <= a
             IN  [st |-> "ok", msg |-> "", region |-> Some(MemoryRegionNew(start, end))]

KernelMemoryRegion(sections) ==
    /\ calc.op = "none"
    /\ calc' = [op |-> "kernel_memory_region", sections |-> sections,
                out |-> kernel_memory_region(sections)]
    /\ UNCHANGED <<bvars, pvars, kvars, bump, vga>>

Subtract(self, other) ==
    /\ calc.op = "none"
    /\ calc' = [op |-> "subtract", self |-> self, other |-> other,
                out |-> subtract(self, other)]
    /\ UNCHANGED <<bvars, pvars, kvars, bump, vga>>

Intersection(self, other) ==
    /\ calc.op = "none"
    /\ calc' = [op |-> "intersection", self |-> self, other |-> other,
                out |-> intersection(self, other)]
    /\ UNCHANGED <<bvars, pvars, kvars, bump, vga>>

Take(self, amount) ==
    /\ calc.op = "none"
    /\ calc' = [op |-> "take", self |-> self, amount |-> amount,
                out |-> take(self, amount)]
    /\ UNCHANGED <<bvars, pvars, kvars, bump, vga>>

----------------------------------------------------------------------------
(* Value types: addresses and page numbers (src/arch/x86_64/paging) *)

\* the 64-bit word written as 16 hexadecimal digits, most significant first
Hex(digits) ==
    {b \in AllOnes : (digits[16 - (b \div 4)] \div (2 ^ (b % 4))) % 2 = 1}

\* the raw values the address types are driven with
Words64 ==
    {Hex(d) : d \in {
        <<0, 0, 0, 0, 0, 0, 0, 0, 0, 0, 0, 0, 0, 0, 0, 0>>,
        <<0, 0, 0, 0, 0, 0, 0, 0, 0, 0, 0, 0, 0, 0, 0, 1>>,
        <<0, 0, 0, 0, 0, 0, 0, 0, 0, 0, 0, 0, 0, 15, 15, 15>>,
        <<0, 0, 0, 0, 0, 0, 0, 0, 0, 0, 0, 0, 1, 0, 0, 0>>,
        <<0, 0, 0, 0, 0, 0, 0, 0, 0, 0, 0, 0, 1, 0, 0, 1>>,
        <<3, 2, 8, 3, 2, 9, 2, 9, 1, 2, 3, 4, 1, 3, 2, 3>>,
        <<0, 0, 0, 0, 7, 15, 15, 15, 15, 15, 15, 15, 15, 15, 15, 15>>,
        <<0, 0, 0, 0, 8, 0, 0, 0, 0, 0, 0, 0, 0, 0, 0, 0>>,
        <<0, 0, 0, 1, 0, 0, 0, 0, 0, 0, 0, 0, 0, 0, 0, 0>>,
        <<7, 15, 15, 15, 15, 15, 15, 15, 15, 15, 15, 15, 15, 15, 15, 15>>,
        <<8, 0, 0, 0, 0, 0, 0, 0, 0, 0, 0, 0, 0, 0, 0, 0>>,
        <<15, 15, 15, 15, 7, 10, 10, 10, 10, 10, 10, 10, 10, 10, 10, 10>>,
        <<15, 15, 15, 15, 14, 10, 10, 10, 10, 10, 10, 10, 10, 10, 10, 10>>,
        <<15, 15, 15, 15, 8, 0, 0, 0, 0, 0, 0, 0, 0, 0, 0, 0>>,
        <<15, 15, 15, 15, 15, 15, 15, 15, 15, 15, 15, 15, 15, 0, 0, 0>>,
        <<15, 15, 15, 15, 15, 15, 15, 15, 15, 15, 15, 15, 15, 0, 0, 1>>,
        <<15, 15, 15, 15, 15, 15, 15, 15, 15, 15, 15, 15, 15, 15, 15, 15>>}}

\* the alignments align_up is driven with: 1, 2, 4096, 2^63, and 0, 3, 0x1800
Aligns == {{0}, {1}, {12}, {63}, {}, {0, 1}, {11, 12}}

\* the carry into bit position i of the sum a + b
RECURSIVE Carry(_, _, _)
Carry(a, b, i) ==
    IF i = 0 THEN FALSE
    ELSE \/ (i - 1) \in a \cap b
         \/ (i - 1) \in a \cup b /\ Carry(a, b, i - 1)

\* a + b modulo 2^64
WrappingAdd(a, b) ==
    {i \in AllOnes : ((i \in a) # (i \in b)) # Carry(a, b, i)}

align_up_u64_AcceptsZero(self, align) ==
    IF Cardinality(align) > 1
    THEN [st |-> "panic", msg |-> "Alignment not a power of two!", raw |-> {}]
    ELSE [st |-> "ok", msg |-> "", raw |-> self]

\* PhysicalAddress::align_up on the full width of the address. self.0 + align
\* is evaluated first: with overflow checks it panics when the sum leaves 64
\* bits; without them (self.0 + align) - 1 is self.0 + (align - 1) modulo 2^64.
align_up_u64(self, align) ==
    IF Cardinality(align) # 1
    THEN [st |-> "panic", msg |-> "Alignment not a power of two!", raw |-> {}]
    ELSE LET mask == 0 .. ((CHOOSE k \in align : TRUE) - 1)
         IN  IF debug_assertions /\ Carry(self, align, WordBits)
             THEN [st |-> "panic", msg |-> "attempt to add with overflow", raw |-> {}]
             ELSE [st |-> "ok", msg |-> "",
                   raw |-> WrappingAdd(self, mask) \cap BitNot(mask)]

\* VirtualAddress::new; the check is a debug_assert!
VirtualAddressNew(raw) ==
    IF debug_assertions /\ ~(LeadingOnes(BitNot(raw)) > 16 \/ LeadingOnes(raw) > 16)
    THEN [st |-> "panic", msg |-> "Attempt to create non-canonical virtual address!",
          raw |-> {}]
    ELSE [st |-> "ok", msg |-> "", raw |-> raw]

new_truncate_ZeroExtends(addr) ==
    VirtualAddressNew(ShiftRight(ShiftLeft(addr, 16), 16))

\* VirtualAddress::new_truncate: (((addr << 16) as isize) >> 16) as u64, the
\* right shift of a signed value copying the sign bit
new_truncate(addr) ==
    LET shifted == ShiftLeft(addr, 16)
        sign == IF (WordBits - 1) \in shifted THEN (WordBits - 16) .. (WordBits - 1) ELSE {}
    IN  VirtualAddressNew(ShiftRight(shifted, 16) \cup sign)

\* the page numbers the index functions are driven with
PageNums ==
    {PageNum(hi, lo) : hi \in {0, 1, 511, 512, 85085, 262143},
                       lo \in {0, 1, 511, 512, 219345, 262143}}

\* the frame numbers Entry::new is driven with: small ones, 2^40 - 1, and
\* numbers whose address does not fit in 52 bits
FrameNums == {BitsOf(f) : f \in 0 .. 3} \cup {0 .. 39, {40}, {51}, {52}, {0, 51}}

\* the flag sets Entry::new is driven with
FlagSets == SUBSET {0, 1, 2, 8, 63}

EntryNewCall(num, flags) ==
    /\ calc.op = "none"
    /\ LET entry == EntryNewBits(num, flags)
       IN  calc' = [op |-> "entry_new", num |-> num, flags |-> flags,
                    out |-> [entry |-> entry, flags |-> EntryFlags(entry),
                             addr |-> EntryAddr(entry), present |-> is_present(entry),
                             cleared |-> EntryClear(entry)]]
    /\ UNCHANGED <<bvars, pvars, kvars, bump, vga>>

AlignUp(self, align) ==
    /\ calc.op = "none"
    /\ calc' = [op |-> "align_up", self |-> self, align |-> align,
                out |-> align_up_u64(self, align)]
    /\ UNCHANGED <<bvars, pvars, kvars, bump, vga>>

VirtualNew(raw) ==
    /\ calc.op = "none"
    /\ calc' = [op |-> "new", raw |-> raw, out |-> VirtualAddressNew(raw)]
    /\ UNCHANGED <<bvars, pvars, kvars, bump, vga>>

VirtualNewTruncate(addr) ==
    /\ calc.op = "none"
    /\ calc' = [op |-> "new_truncate", addr |-> addr, out |-> new_truncate(addr)]
    /\ UNCHANGED <<bvars, pvars, kvars, bump, vga>>

PageNumbers(page) ==
    /\ calc.op = "none"
    /\ calc' = [op |-> "page_numbers", page |-> page,
                out |-> <<level4_page_number(page), level3_page_number(page),
                          level2_page_number(page), level1_page_number(page)>>]
    /\ UNCHANGED <<bvars, pvars, kvars, bump, vga>>

----------------------------------------------------------------------------
(* The VGA text writer (src/vga.rs) *)

SCREEN_WIDTH == 80
SCREEN_HEIGHT == 25

\* number of calls made on the writer in one behaviour
MaxWrites == 2

\* ColorCode::new, (background << 4) | foreground for two 4-bit colours
ColorCodeNew(foreground, background) == background * 16 + foreground

\* VgaChar::new
VgaCharNew(character, color_code) == [character |-> character, color_code |-> color_code]

\* VGA_WRITER: VgaWriter::new with Color::White on Color::Black, then clear().
\* The buffer is the slice of SCREEN_WIDTH * SCREEN_HEIGHT cells, kept row by
\* row: the cell of index i is buffer[i \div SCREEN_WIDTH][i % SCREEN_WIDTH].
VgaNew ==
    LET color == ColorCodeNew(15, 0)
    IN  [row |-> 0, col |-> 0, color |-> color, st |-> "ok",
         buffer |-> [r \in 0 .. (SCREEN_HEIGHT - 1) |->
                        [c \in 0 .. (SCREEN_WIDTH - 1) |-> VgaCharNew(32, color)]]]

scroll_KeepsLastRow(w) ==
    [w EXCEPT !.buffer = [r \in 0 .. (SCREEN_HEIGHT - 1) |->
                             IF r < SCREEN_HEIGHT - 1 THEN w.buffer[r + 1] ELSE w.buffer[r]],
              !.row = SCREEN_HEIGHT - 1,
              !.col = 0]

\* VgaWriter::scroll
scroll(w) ==
    LET RECURSIVE CopyRows(_, _)
        CopyRows(buffer, row) ==
            IF row >= SCREEN_HEIGHT THEN buffer
            ELSE CopyRows([buffer EXCEPT ![row - 1] = buffer[row]], row + 1)
        blank_char == VgaCharNew(32, w.color)
        copied == CopyRows(w.buffer, 1)
    IN  [w EXCEPT !.buffer = [copied EXCEPT ![SCREEN_HEIGHT - 1] =
                                 [c \in 0 .. (SCREEN_WIDTH - 1) |-> blank_char]],
                  !.row = SCREEN_HEIGHT - 1,
                  !.col = 0]

\* the end of a line in write_byte: row += 1, scroll at the bottom, col = 0
NextLine(w) ==
    LET moved == [w EXCEPT !.row = @ + 1]
        scrolled == IF moved.row = SCREEN_HEIGHT THEN scroll(moved) ELSE moved
    IN  [scrolled EXCEPT !.col = 0]

write_byte_NoWrap(w, byte) ==
    IF w.st # "ok" THEN w
    ELSE IF byte = 10 THEN NextLine(w)
    ELSE LET index == w.row * SCREEN_WIDTH + w.col
         IN  IF index >= SCREEN_WIDTH * SCREEN_HEIGHT THEN [w EXCEPT !.st = "panic"]
             ELSE [w EXCEPT !.buffer[index \div SCREEN_WIDTH][index % SCREEN_WIDTH] =
                                VgaCharNew(byte, w.color),
                            !.col = @ + 1]

\* VgaWriter::write_byte; indexing the slice outside its length panics
write_byte(w, byte) ==
    IF w.st # "ok" THEN w
    ELSE IF byte = 10 THEN NextLine(w)
    ELSE LET index == w.row * SCREEN_WIDTH + w.col
         IN  IF index >= SCREEN_WIDTH * SCREEN_HEIGHT THEN [w EXCEPT !.st = "panic"]
             ELSE LET written ==
                          [w EXCEPT !.buffer[index \div SCREEN_WIDTH][index % SCREEN_WIDTH] =
                                        VgaCharNew(byte, w.color),
                                    !.col = @ + 1]
                  IN  IF written.col = SCREEN_WIDTH THEN NextLine(written) ELSE written

\* the loop of write_str over the bytes lo .. hi of the string, in order; the
\* range is split in two halves written one after the other
RECURSIVE WriteRange(_, _, _, _)
WriteRange(w, string, lo, hi) ==
    IF lo > hi THEN w
    ELSE IF lo = hi
    THEN IF string[lo] \in (32 .. 126) \cup {10} THEN write_byte(w, string[lo])
         ELSE write_byte(w, 254)
    ELSE LET mid == (lo + hi) \div 2
             first == WriteRange(w, string, lo, mid)
         IN  IF first.st # "ok" THEN first ELSE WriteRange(first, string, mid + 1, hi)

\* <VgaWriter as Write>::write_str
write_str(w, string) ==
    LET written == WriteRange(w, string, 1, Len(string))
    IN  [w |-> written, ret |-> IF written.st = "ok" THEN "Ok" ELSE "none"]

\* "Hello World!" and "Goodbye World!"
HelloWorld == <<72, 101, 108, 108, 111, 32, 87, 111, 114, 108, 100, 33>>
GoodbyeWorld == <<71, 111, 111, 100, 98, 121, 101, 32, 87, 111, 114, 108, 100, 33>>

\* "Hello World!\nGoodbye World!\n".repeat(13)
ScrollText ==
    [i \in 1 .. 364 |->
        LET k == (i - 1) % 28
        IN  IF k < 12 THEN HelloWorld[k + 1]
            ELSE IF k = 12 \/ k = 27 THEN 10
            ELSE GoodbyeWorld[k - 12]]

\* the strings write_str is driven with: the empty string, the texts of the
\* tests new_lines, scrolling and invalid_char, 81 letters (one line and one
\* more), and 24 newlines followed by 79 letters (cursor in the last cell)
VgaStrings ==
    {<<>>,
     HelloWorld \o <<10>> \o GoodbyeWorld,
     ScrollText,
     <<240, 159, 152, 128, 240, 159, 152, 131, 240, 159, 152, 132>>,
     [i \in 1 .. 81 |-> 97],
     [i \in 1 .. 103 |-> IF i <= 24 THEN 10 ELSE 97]}

\* the bytes write_byte is driven with
VgaBytes == {0, 10, 32, 99, 126, 127, 254, 255}

VgaIdle == vga = [w |-> VgaNew, calls |-> 0, last |-> [op |-> "new", arg |-> <<>>, ret |-> "none"]]

WriteByte(byte) ==
    /\ vga.w.st = "ok"
    /\ vga.calls < MaxWrites
    /\ vga' = [w |-> write_byte(vga.w, byte), calls |-> vga.calls + 1,
               last |-> [op |-> "write_byte", arg |-> <<byte>>, ret |-> "none"]]
    /\ UNCHANGED <<bvars, pvars, kvars, bump, calc>>

WriteStr(string) ==
    /\ vga.w.st = "ok"
    /\ vga.calls < MaxWrites
    /\ LET r == write_str(vga.w, string)
       IN  vga' = [w |-> r.w, calls |-> vga.calls + 1,
                   last |-> [op |-> "write_str", arg |-> string, ret |-> r.ret]]
    /\ UNCHANGED <<bvars, pvars, kvars, bump, calc>>

----------------------------------------------------------------------------
(* Specifications *)

\* the active level-4 table at boot: its last entry points back at the table,
\* entry 1 at the level-3 table the boot code built
RootTable ==
    [EmptyTable EXCEPT ![511] = EntryNew(RootFrame, PRESENT \cup WRITE),
                       ![1] = EntryNew(BootL3, PRESENT \cup WRITE)]

BootL3Table == [EmptyTable EXCEPT ![0] = EntryNew(BootL2, PRESENT \cup WRITE)]

BootMem(junk) ==
    [f \in Frames |->
        IF f = RootFrame THEN RootTable
        ELSE IF f = BootL3 THEN BootL3Table
        ELSE IF f \in PoolFrames THEN junk
        ELSE EmptyTable]

\* a frame the allocator has not handed out yet holds whatever was stored in
\* it before: nothing, or entries that look present
JunkTable == [i \in Indices |-> EntryNew(MaxPool + 1, PRESENT \cup WRITE)]

PagingIdle ==
    /\ mem = BootMem(EmptyTable)
    /\ pfree = PoolFrames
    /\ pres = PResNew
    /\ phalted = FALSE

BitmapIdle ==
    /\ bits = BitmapNew
    /\ arena = [base |-> 4864, size |-> 20480]
    /\ debug_assertions = TRUE
    /\ bres = BRes("new", 0, "ok", 0, 0, "")
    /\ held = {}
    /\ halted = FALSE

InitBitmap ==
    /\ bits = BitmapNew
    /\ arena \in Arenas
    /\ debug_assertions \in BOOLEAN
    /\ bres = BRes("new", 0, "ok", 0, 0, "")
    /\ held = {}
    /\ halted = FALSE
    /\ PagingIdle
    /\ KernelIdle
    /\ BumpIdle
    /\ CalcIdle
    /\ VgaIdle

NextBitmap ==
    \/ Alloc
    \/ \E frame \in DeallocFrames : Dealloc(frame)
    \/ \E sz \in RangeSizes : AllocRange(sz)

Spec == InitBitmap /\ [][NextBitmap]_vars

\* the allocator driven through the FrameAllocator trait only
NextAllocDealloc ==
    \/ Alloc
    \/ \E frame \in DeallocFrames : Dealloc(frame)

SpecAllocDealloc == InitBitmap /\ [][NextAllocDealloc]_vars


InitPaging ==
    /\ \E junk \in {EmptyTable, JunkTable} : mem = BootMem(junk)
    /\ pfree = PoolFrames
    /\ pres = PResNew
    /\ phalted = FALSE
    /\ BitmapIdle
    /\ KernelIdle
    /\ BumpIdle
    /\ CalcIdle
    /\ VgaIdle

NextPaging ==
    \/ \E page \in Pages, frame \in DataFrames : Map(page, frame)
    \/ \E page \in Pages, frame \in DataFrames : MapNoAlloc(page, frame)
    \/ \E page \in Pages : Unmap(page)

SpecPaging == InitPaging /\ [][NextPaging]_vars

InitBitmapOps ==
    /\ bits \in {Filled(k) : k \in FillSizes}
    /\ arena = [base |-> 4864, size |-> 20480]
    /\ debug_assertions \in BOOLEAN
    /\ bres = BRes("new", 0, "ok", 0, 0, "")
    /\ held = {}
    /\ halted = FALSE
    /\ PagingIdle
    /\ KernelIdle
    /\ BumpIdle
    /\ CalcIdle
    /\ VgaIdle

NextBitmapOps ==
    \/ \E index \in BitIndices : BitmapSet(index)
    \/ \E index \in BitIndices : BitmapUnset(index)
    \/ \E index \in BitIndices : BitmapIsSet(index)
    \/ BitmapFirstUnset
    \/ \E num \in RangeLens : BitmapContiguousRange(num)

SpecBitmapOps == InitBitmapOps /\ [][NextBitmapOps]_vars

InitKernel ==
    /\ PagingIdle
    /\ BitmapIdle
    /\ KernelIdle
    /\ BumpIdle
    /\ CalcIdle
    /\ VgaIdle

NextKernel ==
    \/ LockPageTable
    \/ ModifyEnter
    \/ \E page \in ModifyPages : CallbackMap(page, MaxPool + 1)
    \/ \E page \in ModifyPages : CallbackUnmap(page)
    \/ CallbackReturn
    \/ Flush
    \/ ModifyReturn
    \/ DropGuard
    \/ MainLoop
    \/ Panic
    \/ PrintLock
    \/ PrintUnlock
    \/ \E l \in Locks : Interrupt(l)
    \/ HandlerLock
    \/ HandlerReturn

SpecKernel == InitKernel /\ [][NextKernel]_vars

InitBump ==
    /\ \E regs \in RegionLists : bump = BumpNew(regs)
    /\ BitmapIdle
    /\ PagingIdle
    /\ KernelIdle
    /\ CalcIdle
    /\ VgaIdle

SpecBump == InitBump /\ [][BumpAlloc]_vars

InitValues ==
    /\ CalcIdle
    /\ VgaIdle
    /\ bits = BitmapNew
    /\ arena = [base |-> 4864, size |-> 20480]
    /\ debug_assertions \in BOOLEAN
    /\ bres = BRes("new", 0, "ok", 0, 0, "")
    /\ held = {}
    /\ halted = FALSE
    /\ PagingIdle
    /\ KernelIdle
    /\ BumpIdle

NextValues ==
    \/ \E self \in MemoryRegions, other \in MemoryRegions : Subtract(self, other)
    \/ \E self \in MemoryRegions, other \in MemoryRegions : Intersection(self, other)
    \/ \E self \in PhysicalMemoryRegions, amount \in TakeAmounts : Take(self, amount)
    \/ \E self \in Words64, align \in Aligns : AlignUp(self, align)
    \/ \E raw \in Words64 : VirtualNew(raw)
    \/ \E addr \in Words64 : VirtualNewTruncate(addr)
    \/ \E page \in PageNums : PageNumbers(page)
    \/ \E num \in FrameNums, flags \in FlagSets : EntryNewCall(num, flags)
    \/ \E sections \in ElfSectionLists : KernelMemoryRegion(sections)

SpecValues == InitValues /\ [][NextValues]_vars

InitVga ==
    /\ VgaIdle
    /\ BitmapIdle
    /\ PagingIdle
    /\ KernelIdle
    /\ BumpIdle
    /\ CalcIdle

NextVga ==
    \/ \E byte \in VgaBytes : WriteByte(byte)
    \/ \E string \in VgaStrings : WriteStr(string)

SpecVga == InitVga /\ [][NextVga]_vars

----------------------------------------------------------------------------
(* Claims about the bitmap allocator *)

\* frame f lies wholly inside the region a
WhollyInside(f, a) == a.base <= f * PAGE_SIZE /\ (f + 1) * PAGE_SIZE <= a.base + a.size

\* the frames that lie wholly inside the region a
InsideFrames(a) == {f \in 0 .. (NumWords * WordBits + 8) : WhollyInside(f, a)}

\* bit index of the bitmap is set: bit 0 is the most significant bit of word 0
BitSet(bm, index) == (WordBits - 1 - (index % WordBits)) \in bm[index \div WordBits]

\* the frames covered by the region an alloc_range call returned
RegionFrames(r) == (r.val \div PAGE_SIZE) .. ((r.val + r.size) \div PAGE_SIZE - 1)

\* C1: alloc returns the lowest-numbered frame wholly inside the arena that is
\* not currently allocated, and None exactly when every such frame is
\* allocated, after any sequence of calls.
C1_AllocLowestFree ==
    [][bres'.op = "alloc" =>
          LET free == {f \in InsideFrames(arena) : f \notin held}
          IN  IF free = {} THEN bres'.kind = "none"
              ELSE bres'.kind = "frame" /\ bres'.val = SetMin(free)]_vars

\* C2: no frame is handed out twice without an intervening dealloc: a frame
\* returned by alloc, or covered by a region returned by alloc_range, is not
\* held by a caller at the time it is returned.
C2_NoDoubleHandout ==
    [][/\ (bres'.op = "alloc" /\ bres'.kind = "frame") => bres'.val \notin held
       /\ (bres'.op = "alloc_range" /\ bres'.kind = "region") =>
              RegionFrames(bres') \cap held = {}]_vars

\* C3: dealloc(f) is fatal with 'Attempting to free unallocated frame!' for
\* every frame f inside the arena whose bit is clear (in a build that keeps
\* debug assertions, the only build in which the check exists).
C3_DeallocUnallocatedFatal ==
    [][(/\ debug_assertions
        /\ bres'.op = "dealloc"
        /\ WhollyInside(bres'.arg, arena)
        /\ ~BitSet(bits, bres'.arg - first_frame_num(arena)))
       => (/\ bres'.kind = "panic"
           /\ bres'.msg = "Attempting to free unallocated frame!")]_vars

\* C4: dealloc(f) of a frame that is currently allocated never fails and
\* clears exactly the bit of f.
C4_DeallocAllocatedSucceeds ==
    [][(/\ bres'.op = "dealloc"
        /\ WhollyInside(bres'.arg, arena)
        /\ BitSet(bits, bres'.arg - first_frame_num(arena)))
       => (/\ bres'.kind = "ok"
           /\ \A i \in 0 .. (NumWords * WordBits - 1) :
                 BitSet(bits', i) <=>
                    (BitSet(bits, i) /\ i # bres'.arg - first_frame_num(arena)))]_vars

\* C5: dealloc(f) is fatal with 'Attempting to free frame outside of arena!'
\* for every frame f that is not wholly inside the arena, and the bitmap is
\* unchanged.
C5_DeallocOutsideFatal ==
    [][(bres'.op = "dealloc" /\ ~WhollyInside(bres'.arg, arena))
       => (/\ bres'.kind = "panic"
           /\ bres'.msg = "Attempting to free frame outside of arena!"
           /\ bits' = bits)]_vars

\* C6: every frame alloc returns lies wholly inside the arena; when the first
\* clear bit of the bitmap maps beyond the last frame of the arena, alloc
\* returns None and sets no bit.
C6_AllocInsideArena ==
    [][bres'.op = "alloc" =>
          /\ bres'.kind = "frame" => WhollyInside(bres'.val, arena)
          /\ LET clear == {i \in 0 .. (NumWords * WordBits - 1) : ~BitSet(bits, i)}
             IN  (clear # {} /\ ~WhollyInside(SetMin(clear) + first_frame_num(arena), arena))
                    => (bres'.kind = "none" /\ bits' = bits)]_vars

----------------------------------------------------------------------------
(* Claims about the Mapper *)

OutOfMemory == "Out of memory for creating page tables!"

\* the page's walk is complete and its level-1 entry is present and writable
\* and points at frame
PathComplete(m, page, frame) ==
    /\ \A d \in 0 .. 3 : PresentAt(m, page, d)
    /\ WRITE \subseteq EntryAt(m, page, 3)
    /\ EntryFrame(EntryAt(m, page, 3)) = frame

\* the error of map_no_alloc and unmap for a walk that misses at depth d
NotMapped(d) ==
    IF d = 0 THEN "L3 table not mapped"
    ELSE IF d = 1 THEN "L2 table not mapped"
    ELSE "L1 table not mapped"

\* C7 (as claimed): map, when the allocator supplies every frame it needs,
\* ends with a complete path for the page whose level-1 entry is present and
\* writable and points at the frame, whatever the hierarchy was before.
C7_MapCompletesPath ==
    [][(pres'.op = "map" /\ RecursiveOK(mem) /\ pres'.res # OutOfMemory)
       => (pres'.res = "ok" /\ PathComplete(mem', pres'.page, pres'.frame))]_vars

\* C7 (amended): the same, for every page whose level-1 entry is not itself
\* an intermediate entry of the page's walk or the recursive entry.
C7_MapCompletesPathOffWalk ==
    [][(/\ pres'.op = "map"
        /\ RecursiveOK(mem)
        /\ ~LeafOnOwnWalk(mem, pres'.page)
        /\ pres'.res # OutOfMemory)
       => (pres'.res = "ok" /\ PathComplete(mem', pres'.page, pres'.frame))]_vars

\* a map that had to create all three tables has completed the page's path
C7_Witness ==
    /\ pres.op = "map" /\ pres.res = "ok" /\ pres.rec /\ ~pres.own
    /\ pres.allocs = 3
    /\ PathComplete(mem, pres.page, pres.frame)

\* C8 (as claimed): for every page, map followed by unmap returns Ok from
\* unmap and leaves the level-1 entry of the page not present.
C8_MapThenUnmap ==
    (pres.op = "unmap" /\ pres.after_map # "no")
       => (pres.res = "ok" /\ ~PresentAt(mem, pres.page, 3))

\* C8 (amended): the same, when the map started from an intact recursive
\* mapping and the page's level-1 entry is not an intermediate entry of its
\* own walk or the recursive entry.
C8_MapThenUnmapOffWalk ==
    (pres.op = "unmap" /\ pres.after_map = "clean")
       => (pres.res = "ok" /\ ~PresentAt(mem, pres.page, 3))

\* an unmap that directly follows such a map has returned Ok
C8_Witness ==
    /\ pres.op = "unmap" /\ pres.after_map = "clean" /\ pres.res = "ok"
    /\ \A d \in 0 .. 2 : PresentAt(mem, pres.page, d)
    /\ ~PresentAt(mem, pres.page, 3)

\* C9: map_no_alloc on a page whose walk meets a non-present intermediate
\* entry returns the error naming the first missing level, allocates no frame
\* and modifies no entry of any table.
C9_MapNoAllocFails ==
    [][(/\ pres'.op = "map_no_alloc"
        /\ RecursiveOK(mem)
        /\ FirstMissing(mem, pres'.page) < 3)
       => (/\ pres'.res = NotMapped(FirstMissing(mem, pres'.page))
           /\ pres'.allocs = 0
           /\ pfree' = pfree
           /\ mem' = mem)]_vars

\* map_no_alloc has failed because the level-2 table of the page is missing
C9_Witness ==
    /\ pres.op = "map_no_alloc"
    /\ pres.res = "L2 table not mapped"
    /\ FirstMissing(mem, pres.page) = 1
    /\ pfree # PoolFrames

\* C10: unmap on a page whose walk meets a non-present intermediate entry
\* returns the same 'table not mapped' error for the first missing level as
\* map_no_alloc, and modifies no entry of any table.
C10_UnmapFails ==
    [][(/\ pres'.op = "unmap"
        /\ RecursiveOK(mem)
        /\ FirstMissing(mem, pres'.page) < 3)
       => (/\ pres'.res = NotMapped(FirstMissing(mem, pres'.page))
           /\ pres'.res = MapperMapNoAlloc(mem, pfree, pres'.page, MaxPool + 1).st
           /\ mem' = mem)]_vars

\* unmap has failed on a page whose level-1 table is missing
C10_Witness ==
    /\ pres.op = "unmap"
    /\ pres.res = "L1 table not mapped"
    /\ FirstMissing(mem, pres.page) = 2

\* the entries of the tables that differ between two memories
ChangedEntries(m1, m2) == {fi \in Frames \X Indices : m1[fi[1]][fi[2]] # m2[fi[1]][fi[2]]}

\* an unmap that changes at most the level-1 entry of the page, leaves that
\* entry empty and every intermediate entry of the walk present, and gives no
\* frame back to the allocator
UnmapTouchesLeafOnly ==
    LET page == pres'.page
        leaf == << TableAt(mem, page, 3).val, PageIdx(page)[4] >>
    IN  /\ ChangedEntries(mem, mem') \subseteq {leaf}
        /\ mem'[leaf[1]][leaf[2]] = EntryEmpty
        /\ \A d \in 0 .. 2 : PresentAt(mem', page, d)
        /\ pfree' = pfree

\* C11 (as claimed): a successful unmap(page) changes only the level-1 entry
\* of that page, which becomes the empty entry; every intermediate entry of
\* the walk stays present and no frame goes back to an allocator.
C11_UnmapLeafOnly ==
    [][(pres'.op = "unmap" /\ pres'.res = "ok") => UnmapTouchesLeafOnly]_vars

\* C11 (amended): the same, when the level-4 table is recursively mapped and
\* the page's level-1 entry is not an intermediate entry of its own walk or
\* the recursive entry.
C11_UnmapLeafOnlyOffWalk ==
    [][(/\ pres'.op = "unmap"
        /\ pres'.res = "ok"
        /\ RecursiveOK(mem)
        /\ ~LeafOnOwnWalk(mem, pres'.page))
       => UnmapTouchesLeafOnly]_vars

\* a successful unmap has left a level-1 table without any present entry, its
\* intermediate entries present and the frames of its tables with the mapper
C11_Witness ==
    /\ pres.op = "unmap" /\ pres.res = "ok" /\ pres.rec /\ ~pres.own
    /\ pres.after_map = "clean"
    /\ \A d \in 0 .. 2 : PresentAt(mem, pres.page, d)
    /\ \A i \in Indices : ~is_present(mem[TableAt(mem, pres.page, 3).val][i])
    /\ Cardinality(pfree) < MaxPool

----------------------------------------------------------------------------
(* Claims about modify, the locks and the exception handlers *)

\* C12: every call of modify flushes the translation cache exactly once,
\* whether the callback made zero, one or many edits; no table is written
\* after the flush, and the flush is issued before modify returns.
C12_FlushOncePerModify ==
    [][/\ (cpu.pc = "return" /\ cpu'.pc = "held") => (tlb.flushes = 1 /\ ~tlb.stale)
       /\ (mem' # mem) => (cpu.pc = "callback" /\ tlb.flushes = 0 /\ tlb'.stale)
       /\ (tlb'.flushes > tlb.flushes) => (cpu.pc = "flush" /\ cpu'.pc = "return")]_vars

\* modify has returned from a callback that made several edits
C12_Witness ==
    /\ cpu.pc = "held" /\ cpu.edits = MaxEdits
    /\ tlb.flushes = 1 /\ ~tlb.stale
    /\ \A d \in 0 .. 3 : PresentAt(mem, PageOf(1, 0, 0, 1), d)

\* C13: a handler that tries to take a lock the interrupted context holds
\* spins for ever: it never gets the lock and never returns, and the
\* interrupted context never runs again, so the lock is never released.
C13_HandlerDeadlock ==
    [][(cpu.irq \in {"lock", "spin"} /\ locks[cpu.want] = "main")
       => (cpu'.irq = "spin" /\ cpu'.pc = cpu.pc /\ locks' = locks)]_vars

\* a handler spins on the VGA writer's lock, taken by a println it interrupted
C13_Witness ==
    /\ cpu.irq = "spin" /\ cpu.want = "VGA_WRITER"
    /\ cpu.pc = "print" /\ locks["VGA_WRITER"] = "main"

\* C14: the lock of the active page table is released on every exit path of
\* a modify operation, the failure of the callback included: once the
\* operation has ended the main context no longer holds the lock.
C14_LockReleased ==
    cpu.pc \in {"run", "print", "loop", "halt"} => locks["PAGE_TABLE"] # "main"

----------------------------------------------------------------------------
(* Claims about the Bitmap *)

\* the indices of the bitmap whose bit is clear
ClearBits(bm) == {i \in 0 .. (NumWords * WordBits - 1) : ~BitSet(bm, i)}

\* C15: first_unset returns the smallest index whose bit is clear, and None
\* exactly when every bit is set, also when that index lies in a word other
\* than word 0.
C15_FirstUnsetSmallest ==
    [][bres'.op = "first_unset" =>
          IF ClearBits(bits) = {} THEN bres'.kind = "none"
          ELSE bres'.kind = "some" /\ bres'.val = SetMin(ClearBits(bits))]_vars

\* C16: after set(i), is_set(i) is true and is_set(j) is what it was for every
\* other j; after unset(i), is_set(i) is false and is_set(j) is unchanged;
\* is_set(i) reports exactly whether bit i is set.
C16_SetUnsetIsSet ==
    [][/\ bres'.op \in {"set", "unset"} =>
             /\ is_set(bits', bres'.arg) = (bres'.op = "set")
             /\ \A j \in BitIndices \ {bres'.arg} : is_set(bits', j) = is_set(bits, j)
       /\ bres'.op = "is_set" => (bres'.val = 1) = BitSet(bits, bres'.arg)]_vars

\* the starts of the runs of num clear bits
RunStarts(bm, num) ==
    {st \in 0 .. (NumWords * WordBits - num) : \A i \in st .. (st + num - 1) : ~BitSet(bm, i)}

\* C17: contiguous_range(n) returns the smallest index that starts a run of n
\* clear bits, across word boundaries too, and None when there is no such
\* run; it never fails with an arithmetic underflow.
C17_ContiguousRangeSmallest ==
    [][bres'.op = "contiguous_range" =>
          IF RunStarts(bits, bres'.arg) = {} THEN bres'.kind = "none"
          ELSE bres'.kind = "some" /\ bres'.val = SetMin(RunStarts(bits, bres'.arg))]_vars

\* C18: alloc_range(size), for size a multiple of 4096, returns None and
\* leaves the bitmap unchanged, or returns a page-aligned region of exactly
\* size bytes wholly inside the arena, made of the first run of frames that
\* were free before the call, all marked allocated afterwards; any other size
\* is fatal.
C18_AllocRangeRegion ==
    [][bres'.op = "alloc_range" =>
          IF bres'.arg % PAGE_SIZE # 0
          THEN bres'.kind = "panic" /\ bres'.msg = "Trying to sub-allocate non-4k aligned size!"
          ELSE \/ bres'.kind = "none" /\ bits' = bits
               \/ /\ bres'.kind = "region"
                  /\ bres'.val % PAGE_SIZE = 0
                  /\ bres'.size = bres'.arg
                  /\ arena.base <= bres'.val
                  /\ bres'.val + bres'.size <= RegionEnd(arena)
                  /\ \A f \in RegionFrames(bres') :
                        /\ ~BitSet(bits, f - first_frame_num(arena))
                        /\ BitSet(bits', f - first_frame_num(arena))
                  /\ bres'.val = addr_from_number(
                        SetMin(RunStarts(bits, bres'.arg \div PAGE_SIZE)) + first_frame_num(arena))]_vars

----------------------------------------------------------------------------
(* Claims about the BumpAllocator *)

\* the full frames of a region, in increasing order
RECURSIVE FullFrames(_, _)
FullFrames(region, f) ==
    IF (f + 1) * PAGE_SIZE > region.end_addr THEN <<>>
    ELSE IF region.start_addr <= f * PAGE_SIZE THEN <<f>> \o FullFrames(region, f + 1)
    ELSE FullFrames(region, f + 1)

\* the full frames of the regions, region after region
RECURSIVE AllFrames(_)
AllFrames(regs) ==
    IF regs = <<>> THEN <<>> ELSE FullFrames(Head(regs), 0) \o AllFrames(Tail(regs))

\* C19: every frame alloc returns lies wholly inside one of the regions, and
\* a region without a full page, one that ends below 4096 included,
\* contributes no frame and makes neither construction nor alloc fail.
C19_BumpFramesInside ==
    /\ bump.st = "ok"
    /\ \A i \in 1 .. Len(bump.out) :
          bump.out[i] # -1 =>
             \E j \in 1 .. Len(bump.regions) :
                 /\ bump.regions[j].start_addr <= bump.out[i] * PAGE_SIZE
                 /\ (bump.out[i] + 1) * PAGE_SIZE <= bump.regions[j].end_addr

\* C20: the results of the alloc calls are the full frames of the first
\* region in increasing order, then those of the next, and so on, each once,
\* followed by None for ever.
C20_BumpSequence ==
    /\ bump.st = "ok"
    /\ LET want == AllFrames(bump.regions)
       IN  \A i \in 1 .. Len(bump.out) :
              bump.out[i] = IF i <= Len(want) THEN want[i] ELSE -1

----------------------------------------------------------------------------
(* Claims about the memory regions *)

\* the addresses a region holds
Bytes(r) == r.start_addr .. (r.end_addr - 1)

\* the addresses held by the leftovers subtract returned
LeftoverBytes(out) ==
    Bytes(out.first) \cup (IF out.second.some THEN Bytes(out.second.val) ELSE {})

\* C21: subtract returns exactly the addresses of self that are not in other,
\* for every relative position of the two regions, and returns self unchanged
\* when the two do not overlap.
C21_SubtractIsDifference ==
    calc.op = "subtract" =>
        /\ LeftoverBytes(calc.out) = Bytes(calc.self) \ Bytes(calc.other)
        /\ (Bytes(calc.self) \cap Bytes(calc.other) = {} =>
                calc.out = [first |-> calc.self, second |-> NoneV])

\* C22: subtract never reports a zero-length leftover: every region of the
\* result holds at least one address, so when other covers self exactly, or
\* reaches an edge of self, nothing is reported on that side.
C22_NoEmptyLeftover ==
    calc.op = "subtract" =>
        /\ calc.out.first.start_addr < calc.out.first.end_addr
        /\ (calc.out.second.some =>
                calc.out.second.val.start_addr < calc.out.second.val.end_addr)

\* other lies strictly inside self
StrictlyInside(self, other) ==
    self.start_addr < other.start_addr /\ other.end_addr < self.end_addr

\* C23: when other lies strictly inside self, subtract returns exactly two
\* leftovers, [self.start, other.start) and [other.end, self.end); they are
\* disjoint from each other and from other, and with other they make up self.
C23_SubtractInside ==
    (calc.op = "subtract" /\ StrictlyInside(calc.self, calc.other)) =>
        /\ calc.out.first = MemoryRegionNew(calc.self.start_addr, calc.other.start_addr)
        /\ calc.out.second = Some(MemoryRegionNew(calc.other.end_addr, calc.self.end_addr))
        /\ Bytes(calc.out.first) \cap Bytes(calc.out.second.val) = {}
        /\ LeftoverBytes(calc.out) \cap Bytes(calc.other) = {}
        /\ LeftoverBytes(calc.out) \cup Bytes(calc.other) = Bytes(calc.self)
        /\ Bytes(calc.out.first) # {} /\ Bytes(calc.out.second.val) # {}

C23_Witness ==
    /\ calc.op = "subtract"
    /\ StrictlyInside(calc.self, calc.other)
    /\ calc.other.start_addr < calc.other.end_addr
    /\ calc.out.second.some

\* C24: take(amount) with amount <= size returns the region
\* [old_base, old_base + amount) and leaves self as [old_base + amount, old_end).
C24_TakeSplits ==
    (calc.op = "take" /\ calc.amount <= calc.self.size) =>
        /\ calc.out.st = "ok"
        /\ calc.out.ret = Some([base |-> calc.self.base, size |-> calc.amount])
        /\ calc.out.self.base = calc.self.base + calc.amount
        /\ calc.out.self.size >= 0
        /\ calc.out.self.base + calc.out.self.size = calc.self.base + calc.self.size

C24_Witness ==
    /\ calc.op = "take"
    /\ 0 < calc.amount /\ calc.amount < calc.self.size
    /\ calc.out.st = "ok"
    /\ calc.out.self.base > calc.self.base

\* C25: take(amount) with amount > size is a fatal error: no region is
\* returned and self is never left with a wrapped-around size.
C25_TakeTooMuchIsFatal ==
    (calc.op = "take" /\ calc.amount > calc.self.size) =>
        /\ calc.out.st = "panic"
        /\ ~calc.out.ret.some
        /\ calc.out.self.size >= 0

\* C26: intersection returns None exactly when the two regions share no
\* address; otherwise it returns [max of the starts, min of the ends), which
\* is non-empty, holds exactly the shared addresses and is contained in both
\* regions; the result does not depend on the order of the two regions.
C26_Intersection ==
    calc.op = "intersection" =>
        LET shared == Bytes(calc.self) \cap Bytes(calc.other)
            starts == {calc.self.start_addr, calc.other.start_addr}
            ends == {calc.self.end_addr, calc.other.end_addr}
        IN  /\ ~calc.out.some <=> shared = {}
            /\ calc.out.some =>
                   /\ calc.out.val.start_addr \in starts
                   /\ \A a \in starts : a <= calc.out.val.start_addr
                   /\ calc.out.val.end_addr \in ends
                   /\ \A a \in ends : calc.out.val.end_addr <= a
                   /\ Bytes(calc.out.val) = shared
                   /\ shared # {}
                   /\ contains(calc.self, calc.out.val)
                   /\ contains(calc.other, calc.out.val)
            /\ intersection(calc.other, calc.self) = calc.out

C26_Witness ==
    /\ calc.op = "intersection"
    /\ calc.out.some
    /\ calc.out.val # calc.self
    /\ calc.out.val # calc.other

----------------------------------------------------------------------------
(* Claims about the addresses and the page numbers *)

\* a >= b as unsigned 64-bit values
Geq(a, b) ==
    \/ a = b
    \/ LET diff == (a \ b) \cup (b \ a)
       IN  (CHOOSE x \in diff : \A y \in diff : y <= x) \in a

\* the smallest multiple of the power of two align that is >= x: x itself
\* when its low bits are clear, else x rounded down plus align; None when that
\* sum is 2^64
SmallestMultiple(x, align) ==
    LET mask == 0 .. ((CHOOSE k \in align : TRUE) - 1)
        down == x \ mask
    IN  IF x \cap mask = {} THEN Some(x)
        ELSE IF Carry(down, align, WordBits) THEN NoneV
        ELSE Some(WrappingAdd(down, align))

\* C27: align_up(x, a) is the smallest multiple of a that is >= x, for every
\* 64-bit x and every power of two a, and its computation does not overflow,
\* also when x is within a of 2^64.
C27_AlignUpSmallestMultiple ==
    (calc.op = "align_up" /\ Cardinality(calc.align) = 1) =>
        /\ calc.out.st = "ok"
        /\ Geq(calc.out.raw, calc.self)
        /\ Some(calc.out.raw) = SmallestMultiple(calc.self, calc.align)

\* bits 48 to 63 of the value all equal bit 47
Canonical(raw) == \A b \in 48 .. 63 : (b \in raw) <=> (47 \in raw)

\* C28: VirtualAddress::new(raw) succeeds exactly when raw is canonical, and
\* as_u64 then returns raw; for every non-canonical raw the construction fails
\* with 'Attempt to create non-canonical virtual address!'.
C28_NewExactlyCanonical ==
    calc.op = "new" =>
        /\ Canonical(calc.raw) => (calc.out.st = "ok" /\ calc.out.raw = calc.raw)
        /\ ~Canonical(calc.raw) =>
               /\ calc.out.st = "panic"
               /\ calc.out.msg = "Attempt to create non-canonical virtual address!"

\* C29: new_truncate(x) never fails; its result is canonical, keeps the low 48
\* bits of x and has bits 48 to 63 equal to bit 47 of x; it returns a
\* canonical x unchanged, so applying it twice is the same as applying it once.
C29_TruncateCanonical ==
    calc.op = "new_truncate" =>
        /\ calc.out.st = "ok"
        /\ Canonical(calc.out.raw)
        /\ calc.out.raw \cap (0 .. 47) = calc.addr \cap (0 .. 47)
        /\ \A b \in 48 .. 63 : (b \in calc.out.raw) <=> (47 \in calc.addr)
        /\ Canonical(calc.addr) => calc.out.raw = calc.addr
        /\ new_truncate(calc.out.raw) = calc.out

C29_Witness ==
    /\ calc.op = "new_truncate"
    /\ debug_assertions
    /\ ~Canonical(calc.addr)
    /\ 47 \in calc.addr
    /\ calc.out.st = "ok"
    /\ calc.out.raw # calc.addr

\* C30: for every page number below 2^36 the four table indices lie in
\* 0 .. 511 and recompose the number, n = l4 * 2^27 + l3 * 2^18 + l2 * 2^9 + l1
\* (0o246135654321 gives 0o246, 0o135, 0o654, 0o321), so two different page
\* numbers differ in at least one index.
C30_PageNumbersRecompose ==
    calc.op = "page_numbers" =>
        /\ \A i \in 1 .. 4 : calc.out[i] \in 0 .. 511
        /\ calc.page.hi = calc.out[1] * 512 + calc.out[2]
        /\ calc.page.lo = calc.out[3] * 512 + calc.out[4]
        /\ calc.page = PageNum(85085, 219345) => calc.out = <<166, 93, 428, 209>>
        /\ \A q \in PageNums :
               q # calc.page =>
                   <<level4_page_number(q), level3_page_number(q),
                     level2_page_number(q), level1_page_number(q)>> # calc.out

C30_Witness ==
    /\ calc.op = "page_numbers"
    /\ calc.page = PageNum(85085, 219345)
    /\ calc.out = <<166, 93, 428, 209>>

----------------------------------------------------------------------------
(* Claims about the page-table entries *)

\* the entry carries exactly the flags it was built with, and its address is
\* the frame number times 4096 (bit b of the number at position b + 12)
EntryCarries(c) ==
    /\ c.out.flags = c.flags
    /\ c.out.present <=> (PRESENT \subseteq c.flags)
    /\ c.out.addr = {b + 12 : b \in c.num}
    /\ ~is_present(EntryEmpty)
    /\ ~is_present(c.out.cleared)

\* C31: for every frame and every flag set F, Entry::new(frame, F) carries
\* exactly the flags F and addr() returns frame * 4096; the empty entry and a
\* cleared entry are not present.
C31_EntryNewExact == calc.op = "entry_new" => EntryCarries(calc)

\* C31 for the frames whose address fits in the 52 bits of a physical address
\* (frame number below 2^40)
C31_EntryNewExactBelow2p40 ==
    (calc.op = "entry_new" /\ calc.num \subseteq 0 .. 39) => EntryCarries(calc)

C31_Witness ==
    /\ calc.op = "entry_new"
    /\ calc.num = 0 .. 39
    /\ calc.flags = {0, 63}
    /\ calc.out.addr = ADDR_MASK
    /\ calc.out.present

----------------------------------------------------------------------------
(* Claims about single bits of the Bitmap *)

\* C32: set(i) turns on and unset(i) turns off exactly the bit of word
\* i div 64 at position 63 - (i mod 64) counted from the least significant
\* bit, and no other bit of any word changes.
C32_SetUnsetExactBit ==
    [][bres'.op \in {"set", "unset"} =>
          LET w == bres'.arg \div 64
              pos == 63 - (bres'.arg % 64)
          IN  bits' = [bits EXCEPT ![w] = IF bres'.op = "set" THEN @ \cup {pos}
                                          ELSE @ \ {pos}]]_vars

C32_Witness ==
    /\ bres.op = "unset"
    /\ bres.arg = 2
    /\ bits[0] = (14 .. 63) \ {61}
    /\ 63 \in bits[1]

----------------------------------------------------------------------------
(* Claims about the alignment argument *)

\* C33: align_up(x, a) ends in the fatal error 'Alignment not a power of two!'
\* for every a that is not a power of two, a = 0 included, and for no a that
\* is a power of two.
C33_AlignUpRejectsNonPowers ==
    calc.op = "align_up" =>
        ((calc.out.st = "panic" /\ calc.out.msg = "Alignment not a power of two!")
            <=> ~(\E k \in AllOnes : calc.align = {k}))

C33_Witness ==
    /\ calc.op = "align_up"
    /\ calc.align = {}
    /\ calc.out.st = "panic"
    /\ calc.out.msg = "Alignment not a power of two!"

----------------------------------------------------------------------------
(* Claims about the VGA writer *)

\* a row of the screen shows the text from its first column on, blanks after it
RowShows(row, text) ==
    \A c \in 0 .. (SCREEN_WIDTH - 1) :
        row[c] = VgaCharNew(IF c < Len(text) THEN text[c + 1] ELSE 32, ColorCodeNew(15, 0))

\* the screen after the last 24 of the lines "Hello World!", "Goodbye World!",
\* ... ended in a newline: the text from a "Hello World!" line on at the top,
\* the last row blank, the cursor at its start
ShowsLastLines(w) ==
    /\ \A r \in 0 .. (SCREEN_HEIGHT - 2) :
           RowShows(w.buffer[r], IF r % 2 = 0 THEN HelloWorld ELSE GoodbyeWorld)
    /\ RowShows(w.buffer[SCREEN_HEIGHT - 1], <<>>)
    /\ w.row = SCREEN_HEIGHT - 1 /\ w.col = 0

\* C34: a write_byte that moves the cursor past the last row scrolls by one
\* line: every row r in 1 .. 24 (the byte just written included) is copied to
\* row r - 1, the last row is blank, and the cursor is at row 24, column 0;
\* after the 26 newline-terminated lines of the scrolling test are written the
\* screen shows the text from the third line on at the top.
C34_ScrollOneLine ==
    [][/\ (/\ vga'.last.op = "write_byte"
           /\ vga'.calls = vga.calls + 1
           /\ vga.w.row = SCREEN_HEIGHT - 1
           /\ (vga'.last.arg[1] = 10 \/ vga.w.col = SCREEN_WIDTH - 1)) =>
              LET byte == vga'.last.arg[1]
                  before == IF byte = 10 THEN vga.w.buffer
                            ELSE [vga.w.buffer EXCEPT ![vga.w.row][vga.w.col] =
                                      VgaCharNew(byte, ColorCodeNew(15, 0))]
              IN  /\ \A r \in 1 .. (SCREEN_HEIGHT - 1) : vga'.w.buffer[r - 1] = before[r]
                  /\ RowShows(vga'.w.buffer[SCREEN_HEIGHT - 1], <<>>)
                  /\ vga'.w.row = SCREEN_HEIGHT - 1 /\ vga'.w.col = 0
       /\ (vga'.last.op = "write_str" /\ vga'.last.arg = ScrollText) =>
              ShowsLastLines(vga'.w)]_vars

C34_Witness ==
    /\ vga.last.op = "write_byte"
    /\ vga.last.arg = <<99>>
    /\ vga.w.row = SCREEN_HEIGHT - 1 /\ vga.w.col = 0
    /\ vga.w.buffer[SCREEN_HEIGHT - 2][SCREEN_WIDTH - 1].character = 99
    /\ RowShows(vga.w.buffer[SCREEN_HEIGHT - 1], <<>>)

\* the writer after write_byte was called on the bytes lo .. hi of the
\* sequence, in order
RECURSIVE WriteBytes(_, _, _, _)
WriteBytes(w, bytes, lo, hi) ==
    IF lo > hi THEN w
    ELSE IF lo = hi THEN write_byte(w, bytes[lo])
    ELSE LET mid == (lo + hi) \div 2
             first == WriteBytes(w, bytes, lo, mid)
         IN  IF first.st = "panic" THEN first ELSE WriteBytes(first, bytes, mid + 1, hi)

\* the string with every byte outside the printable ASCII range, other than
\* the newline, replaced by the character 254
Printable(string) ==
    [i \in 1 .. Len(string) |->
        IF (32 <= string[i] /\ string[i] <= 126) \/ string[i] = 10 THEN string[i] ELSE 254]

\* C40: after any sequence of write_byte and write_str calls the cursor has
\* row < 25 and col < 80 and no write fell outside the 80x25 buffer;
\* write_str returns Ok and writes every byte outside the printable ASCII
\* range, other than the newline, as the character 254.
C40_CursorInsideScreen ==
    [][/\ vga'.w.row < 25 /\ vga'.w.col < 80
       /\ vga'.w.st = "ok"
       /\ (vga'.last.op = "write_str" /\ vga'.calls = vga.calls + 1) =>
              /\ vga'.last.ret = "Ok"
              /\ LET shown == Printable(vga'.last.arg)
                 IN  vga'.w = WriteBytes(vga.w, shown, 1, Len(shown))]_vars

C40_Witness ==
    /\ vga.last.op = "write_str"
    /\ vga.last.ret = "Ok"
    /\ vga.last.arg = <<240, 159, 152, 128, 240, 159, 152, 131, 240, 159, 152, 132>>
    /\ vga.w.row = SCREEN_HEIGHT - 1 /\ vga.w.col = 12
    /\ \A c \in 0 .. 11 : vga.w.buffer[SCREEN_HEIGHT - 1][c].character = 254

----------------------------------------------------------------------------
(* Claims about the kernel's ELF sections *)

\* C35: kernel_memory_region returns a region that bounds the kernel image:
\* the whole extent [addr, addr + size) of every section that is not Null
\* lies inside the returned region.
C35_KernelRegionBoundsSections ==
    calc.op = "kernel_memory_region" =>
        \A i \in 1 .. Len(calc.sections) :
            calc.sections[i].section_type # 0 =>
                /\ calc.out.st = "ok"
                /\ calc.out.region.val.start_addr <= calc.sections[i].addr
                /\ calc.sections[i].addr + calc.sections[i].size
                       <= calc.out.region.val.end_addr

----------------------------------------------------------------------------
(* Claims about the tables map creates *)

\* every page whose four indices are slots the model keeps
AllPages == {PageOf(i[1], i[2], i[3], i[4]) : i \in Indices \X Indices \X Indices \X Indices}

\* the frame the processor translates the page to, None when the walk meets
\* an entry that is not present
Translation(m, page) == Walk(m, RootFrame, PageIdx(page))

\* the entries the page's walk selects, as far as the walk gets
WalkEntries(m, page) ==
    {<<TableAt(m, page, d).val, PageIdx(page)[d + 1]>> : d \in {k \in 0 .. 3 : TableAt(m, page, k).some}}

\* the pages outside the window of the recursive mapping
OrdinaryPages == {q \in AllPages : level4_page_number(q) # 511}

\* a map of pres'.page that leaves the translation of every other page of
\* the set others as it was, leaves no entry present in a table it created
\* apart from the entries of the page's walk, and changes no entry of an
\* existing table that is not on the page's walk
MapLeavesOthersAlone(others) ==
    LET page == pres'.page
        created == pfree \ pfree'
        walk == WalkEntries(mem', page)
    IN  /\ \A q \in others \ {page} : Translation(mem', q) = Translation(mem, q)
        /\ \A f \in created : \A i \in Indices :
               is_present(mem'[f][i]) => <<f, i>> \in walk
        /\ \A fi \in ChangedEntries(mem, mem') : fi[1] \in created \/ fi \in walk

\* C36 (as claimed): map of page p, with frames from the allocator that the
\* hierarchy does not use, never changes the translation of another page;
\* the tables it creates are cleared before use and the entries of existing
\* tables off p's walk are unchanged.
C36_MapLeavesOthers ==
    [][(pres'.op = "map" /\ RecursiveOK(mem)) => MapLeavesOthersAlone(AllPages)]_vars

\* C36 (amended): the same, for the pages p and q outside the window of the
\* recursive mapping (level-4 index other than 511).
C36_MapLeavesOthersOutsideWindow ==
    [][(/\ pres'.op = "map"
        /\ RecursiveOK(mem)
        /\ level4_page_number(pres'.page) # 511)
       => MapLeavesOthersAlone(OrdinaryPages)]_vars

\* a map that created tables in frames that held entries before
C36_Witness ==
    /\ pres.op = "map" /\ pres.res = "ok" /\ pres.rec
    /\ level4_page_number(pres.page) # 511
    /\ pres.allocs >= 2
    /\ \E q \in Pages \ {pres.page} : Translation(mem, q).some
    /\ \A i \in Indices \ {level1_page_number(pres.page)} :
           ~is_present(mem[TableAt(mem, pres.page, 3).val][i])

\* ---------------------------------------------------------------------------
\* Claims about the tables map allocates
\* ---------------------------------------------------------------------------

\* the levels (0 = the level-4 entry, 1 = the level-3 entry, 2 = the level-2
\* entry) whose entry on the page's walk is not present, i.e. the intermediate
\* tables that are missing
MissingLevels(m, page) == {d \in 0 .. 2 : ~PresentAt(m, page, d)}

TableFlags == PRESENT \cup WRITE \cup USER

MapAllocatesPerMissingTable ==
    LET page == pres'.page
        created == pfree \ pfree'
        missing == MissingLevels(mem, page)
        \* the slot the leaf entry is written to when every table exists
        leaf == IF missing = {}
                THEN {<<TableAt(mem, page, 3).val, PageIdx(page)[4]>>}
                ELSE {}
    IN  /\ Cardinality(created) = pres'.allocs
        /\ pres'.allocs <= Cardinality(missing)
        /\ pres'.res = "ok" => pres'.allocs = Cardinality(missing)
        \* a present table is kept: its parent entry is not rewritten, its
        \* frame is not a new one, its entries off the walk are not touched
        /\ \A d \in (0 .. 2) \ missing :
              LET parent == TableAt(mem, page, d).val
                  table == TableAt(mem, page, d + 1).val
              IN  /\ <<parent, PageIdx(page)[d + 1]>> \notin leaf
                         => mem'[parent][PageIdx(page)[d + 1]]
                                = mem[parent][PageIdx(page)[d + 1]]
                  /\ table \notin created
                  /\ \A i \in Indices \ {PageIdx(page)[d + 2]} :
                         <<table, i>> \notin leaf => mem'[table][i] = mem[table][i]
        \* a created table hangs off a parent entry with the three flags
        /\ \A d \in missing :
              PresentAt(mem', page, d) =>
                  /\ EntryFlags(EntryAt(mem', page, d)) = TableFlags
                  /\ EntryFrame(EntryAt(mem', page, d)) \in created
        /\ pres'.res = "ok" => \A d \in missing : PresentAt(mem', page, d)

\* C37: map calls the allocator exactly once for each missing intermediate
\* table on the page's walk and never for a present one; the parent entry
\* of a created table is present, writable, user-accessible and points at
\* the allocated frame; an existing table is neither re-created nor cleared.
C37_MapAllocatesPerMissingTable ==
    [][(pres'.op = "map" /\ RecursiveOK(mem)) => MapAllocatesPerMissingTable]_vars

C37_Witness ==
    /\ pres.op = "map" /\ pres.res = "ok" /\ pres.rec
    /\ pres.allocs = 1
    /\ level4_page_number(pres.page) = 1
    /\ EntryFlags(EntryAt(mem, pres.page, 2)) = TableFlags
    /\ TableAt(mem, pres.page, 2).val = BootL2

\* C38: when the three intermediate tables of a page all exist,
\* map_no_alloc(page, frame) returns Ok and leaves the tables in exactly the
\* state map(page, frame, alloc) leaves them in from the same starting
\* state, and neither of the two calls the allocator.
C38_MapNoAllocEqualsMap ==
    [][(/\ pres'.op \in {"map", "map_no_alloc"}
        /\ RecursiveOK(mem)
        /\ FirstMissing(mem, pres'.page) = 3)
       => LET with_alloc == MapperMap(mem, pfree, pres'.page, pres'.frame)
              no_alloc == MapperMapNoAlloc(mem, pfree, pres'.page, pres'.frame)
          IN  /\ no_alloc.st = "ok" /\ with_alloc.st = "ok"
              /\ no_alloc.m = with_alloc.m
              /\ no_alloc.n = 0 /\ with_alloc.n = 0
              /\ no_alloc.pf = pfree /\ with_alloc.pf = pfree
              /\ mem' = no_alloc.m /\ pfree' = pfree
              /\ pres'.res = "ok" /\ pres'.allocs = 0]_vars

C38_Witness ==
    /\ pres.op = "map_no_alloc" /\ pres.res = "ok" /\ pres.rec /\ ~pres.own
    /\ pres.allocs = 0
    /\ pfree # PoolFrames
    /\ PathComplete(mem, pres.page, pres.frame)
    /\ mem = MapperMap(mem, pfree, pres.page, pres.frame).m

\* C39: when the allocator has no frame left while map has to create a
\* table, map does not return an error: it aborts fatally with 'Out of
\* memory for creating page tables!'.  The tables the same call created and
\* installed at higher levels stay present (nothing is rolled back), and the
\* leaf entry is not written.
C39_MapOutOfMemoryIsFatal ==
    [][(/\ pres'.op = "map"
        /\ RecursiveOK(mem)
        /\ Cardinality(MissingLevels(mem, pres'.page)) > Cardinality(pfree))
       => LET page == pres'.page
              created == pfree \ pfree'
              first == FirstMissing(mem, page)
          IN  /\ pres'.res = OutOfMemory
              /\ phalted'
              /\ pfree' = {}
              /\ created = pfree
              /\ pres'.allocs = Cardinality(pfree)
              \* the tables created before the failure are still installed
              /\ \A d \in first .. (first + pres'.allocs - 1) :
                    /\ PresentAt(mem', page, d)
                    /\ EntryFrame(EntryAt(mem', page, d)) \in created
              \* the walk stops at the table that could not be created, so
              \* there is no leaf entry for the page
              /\ ~PresentAt(mem', page, first + pres'.allocs)
              /\ ~TableAt(mem', page, 3).some
              /\ ~Translation(mem', page).some
              /\ \A fi \in ChangedEntries(mem, mem') :
                    \/ fi[1] \in created
                    \/ \E d \in first .. (first + pres'.allocs - 1) :
                          fi = <<TableAt(mem, page, d).val, PageIdx(page)[d + 1]>>]_vars

C39_Witness ==
    /\ pres.op = "map" /\ pres.res = OutOfMemory /\ pres.rec
    /\ phalted
    /\ pres.allocs >= 1
    /\ pfree = {}
    /\ \E d \in 0 .. 2 :
          /\ PresentAt(mem, pres.page, d)
          /\ ~PresentAt(mem, pres.page, d + 1)
          /\ TableAt(mem, pres.page, d + 1).val \in PoolFrames

====
